---- MODULE Spec2Model ----
(***************************************************************************)
(* Model of the multi-instance reconciliation engine of the Mastery app:   *)
(* SyncManager (src/src/sync.ts).  A snapshot (SyncData) carries goals,    *)
(* sessions, achievement records and the active session; merge(local,      *)
(* remote) combines two snapshots and logs goal conflicts.                 *)
(*                                                                         *)
(* JavaScript values are represented as follows.                           *)
(*   - an array is a sequence;                                             *)
(*   - a Map<string, T> keyed by the id of T is the sequence of its values *)
(*     in insertion order (Map.set on a present key keeps its position);   *)
(*   - a string compared with < or > (instanceId) is the sequence of its   *)
(*     UTF-16 code units;                                                  *)
(*   - null / undefined is the record Null.                                *)
(***************************************************************************)
EXTENDS Integers, Sequences, FiniteSets, TLC

VARIABLES
    local,       \* SyncData: the snapshot of this instance (1st argument of merge)
    remote,      \* SyncData: the snapshot received from the peer / backup file
    now,         \* the clock, Date.now()
    results,     \* the merge calls made so far, oldest first: the time of the
                 \* call, the instance id of the manager, the MergeResult
    data,        \* the value handed to validateSyncData
    verdict,     \* what validateSyncData(data) did: its result, or the exception
    storage,     \* localStorage: the goals, sessions, achievements and
                 \* activeSession entries
    app,         \* MasteryApp: its fields goals and achievements
    last         \* the last operation of the app and how it ended

vars == <<local, remote, now, results, data, verdict, storage, app, last>>

(***************************************************************************)
(* Bounds of the model.                                                    *)
(***************************************************************************)
MaxTime == 2     \* timestamps of the entities range over 1..MaxTime
MaxLen == 2      \* most entities of one kind in one snapshot
MaxRuns == 2     \* merge calls per behaviour

Times == 1..MaxTime

GoalIds == {"g1", "g2"}
SessionIds == {"s1", "s2", "s3"}
AchievementIds == {"a1", "a2"}

\* instance ids as code unit sequences: "ab" and "b" ("ab" < "b" in JavaScript)
InstanceIds == {<<1, 2>>, <<2>>}

Null == [null |-> TRUE]

(***************************************************************************)
(* JavaScript primitives used by SyncManager.                              *)
(***************************************************************************)
RECURSIVE StrLess(_, _)
\* a < b on strings: lexicographic order of the code units
StrLess(a, b) ==
    IF b = <<>> THEN FALSE
    ELSE IF a = <<>> THEN TRUE
    ELSE IF a[1] < b[1] THEN TRUE
    ELSE IF a[1] > b[1] THEN FALSE
    ELSE StrLess(Tail(a), Tail(b))

\* StrGreater with the shorter string taken for the smaller one
StrGreater_ByLength(a, b) ==
    \/ Len(a) > Len(b)
    \/ Len(a) = Len(b) /\ StrLess(b, a)

\* a > b on strings
StrGreater(a, b) == StrLess(b, a)

\* Map.has(key)
MapHas(m, key) == \E i \in 1..Len(m) : m[i].id = key

\* Map.get(key): the value, or undefined
MapGet(m, key) ==
    IF MapHas(m, key)
    THEN m[CHOOSE i \in 1..Len(m) : m[i].id = key]
    ELSE Null

\* Map.set(value.id, value): replaces in place, or appends a new key
MapSet(m, value) ==
    IF MapHas(m, value.id)
    THEN [i \in 1..Len(m) |-> IF m[i].id = value.id THEN value ELSE m[i]]
    ELSE Append(m, value)

RECURSIVE MapFromArray(_, _)
\* for (const x of xs) map.set(x.id, x)
MapFromArray(m, xs) ==
    IF xs = <<>> THEN m
    ELSE MapFromArray(MapSet(m, Head(xs)), Tail(xs))

RECURSIVE InsertByStartTime(_, _)
\* x placed behind every element e with e.startTime - x.startTime <= 0
InsertByStartTime(sorted, x) ==
    IF sorted = <<>> THEN <<x>>
    ELSE IF Head(sorted).startTime - x.startTime <= 0
         THEN <<Head(sorted)>> \o InsertByStartTime(Tail(sorted), x)
         ELSE <<x>> \o sorted

RECURSIVE SortByStartTime(_, _)
\* Array.prototype.sort((a, b) => a.startTime - b.startTime), a stable sort
SortByStartTime(sorted, xs) ==
    IF xs = <<>> THEN sorted
    ELSE SortByStartTime(InsertByStartTime(sorted, Head(xs)), Tail(xs))

(***************************************************************************)
(* SyncManager.mergeGoals: Last-Write-Wins on lastModified, ties broken by *)
(* instanceId.  acc is the pair of goalsMap and the conflicts array.       *)
(***************************************************************************)
Conflict(localGoal, remoteGoal, id, resolution) ==
    [type |-> "goal", id |-> id, local |-> localGoal, remote |-> remoteGoal,
     resolution |-> resolution]

\* MergeRemoteGoal with the two comparisons of lastModified exchanged
MergeRemoteGoal_OlderWins(acc, remoteGoal) ==
    LET localGoal == MapGet(acc.goalsMap, remoteGoal.id) IN
    IF localGoal = Null
    THEN [goalsMap |-> MapSet(acc.goalsMap, remoteGoal),
          conflicts |-> acc.conflicts]
    ELSE IF remoteGoal.lastModified < localGoal.lastModified
    THEN [goalsMap |-> MapSet(acc.goalsMap, remoteGoal),
          conflicts |-> Append(acc.conflicts,
                          Conflict(localGoal, remoteGoal, remoteGoal.id, "remote"))]
    ELSE IF remoteGoal.lastModified > localGoal.lastModified
    THEN [goalsMap |-> acc.goalsMap,
          conflicts |-> Append(acc.conflicts,
                          Conflict(localGoal, remoteGoal, localGoal.id, "local"))]
    ELSE LET useRemote == StrGreater(remoteGoal.instanceId, localGoal.instanceId) IN
         [goalsMap |-> IF useRemote THEN MapSet(acc.goalsMap, remoteGoal)
                       ELSE acc.goalsMap,
          conflicts |-> Append(acc.conflicts,
                          Conflict(localGoal, remoteGoal, remoteGoal.id,
                                   IF useRemote THEN "remote" ELSE "local"))]

\* MergeRemoteGoal without the insertion of a goal that is new from remote
MergeRemoteGoal_DropsNew(acc, remoteGoal) ==
    LET localGoal == MapGet(acc.goalsMap, remoteGoal.id) IN
    IF localGoal = Null
    THEN acc
    ELSE IF remoteGoal.lastModified > localGoal.lastModified
    THEN [goalsMap |-> MapSet(acc.goalsMap, remoteGoal),
          conflicts |-> Append(acc.conflicts,
                          Conflict(localGoal, remoteGoal, remoteGoal.id, "remote"))]
    ELSE IF remoteGoal.lastModified < localGoal.lastModified
    THEN [goalsMap |-> acc.goalsMap,
          conflicts |-> Append(acc.conflicts,
                          Conflict(localGoal, remoteGoal, localGoal.id, "local"))]
    ELSE LET useRemote == StrGreater(remoteGoal.instanceId, localGoal.instanceId) IN
         [goalsMap |-> IF useRemote THEN MapSet(acc.goalsMap, remoteGoal)
                       ELSE acc.goalsMap,
          conflicts |-> Append(acc.conflicts,
                          Conflict(localGoal, remoteGoal, remoteGoal.id,
                                   IF useRemote THEN "remote" ELSE "local"))]

\* MergeRemoteGoal without the conflict entry of a tie that local wins
MergeRemoteGoal_SilentTie(acc, remoteGoal) ==
    LET localGoal == MapGet(acc.goalsMap, remoteGoal.id) IN
    IF localGoal = Null
    THEN [goalsMap |-> MapSet(acc.goalsMap, remoteGoal),
          conflicts |-> acc.conflicts]
    ELSE IF remoteGoal.lastModified > localGoal.lastModified
    THEN [goalsMap |-> MapSet(acc.goalsMap, remoteGoal),
          conflicts |-> Append(acc.conflicts,
                          Conflict(localGoal, remoteGoal, remoteGoal.id, "remote"))]
    ELSE IF remoteGoal.lastModified < localGoal.lastModified
    THEN [goalsMap |-> acc.goalsMap,
          conflicts |-> Append(acc.conflicts,
                          Conflict(localGoal, remoteGoal, localGoal.id, "local"))]
    ELSE LET useRemote == StrGreater(remoteGoal.instanceId, localGoal.instanceId) IN
         [goalsMap |-> IF useRemote THEN MapSet(acc.goalsMap, remoteGoal)
                       ELSE acc.goalsMap,
          conflicts |-> IF useRemote
                        THEN Append(acc.conflicts,
                                Conflict(localGoal, remoteGoal, remoteGoal.id, "remote"))
                        ELSE acc.conflicts]

\* MergeRemoteGoal that keeps the local goal on equal lastModified
MergeRemoteGoal_TieKeepsLocal(acc, remoteGoal) ==
    LET localGoal == MapGet(acc.goalsMap, remoteGoal.id) IN
    IF localGoal = Null
    THEN [goalsMap |-> MapSet(acc.goalsMap, remoteGoal),
          conflicts |-> acc.conflicts]
    ELSE IF remoteGoal.lastModified > localGoal.lastModified
    THEN [goalsMap |-> MapSet(acc.goalsMap, remoteGoal),
          conflicts |-> Append(acc.conflicts,
                          Conflict(localGoal, remoteGoal, remoteGoal.id, "remote"))]
    ELSE [goalsMap |-> acc.goalsMap,
          conflicts |-> Append(acc.conflicts,
                          Conflict(localGoal, remoteGoal, localGoal.id, "local"))]

\* MergeRemoteGoal that adds up the time spent of the two versions of a goal
MergeRemoteGoal_SumsTime(acc, remoteGoal) ==
    LET localGoal == MapGet(acc.goalsMap, remoteGoal.id)
        sum == IF localGoal = Null THEN 0
               ELSE localGoal.totalTimeSpent + remoteGoal.totalTimeSpent
    IN
    IF localGoal = Null
    THEN [goalsMap |-> MapSet(acc.goalsMap, remoteGoal),
          conflicts |-> acc.conflicts]
    ELSE IF remoteGoal.lastModified > localGoal.lastModified
    THEN [goalsMap |-> MapSet(acc.goalsMap, [remoteGoal EXCEPT !.totalTimeSpent = sum]),
          conflicts |-> Append(acc.conflicts,
                          Conflict(localGoal, remoteGoal, remoteGoal.id, "remote"))]
    ELSE IF remoteGoal.lastModified < localGoal.lastModified
    THEN [goalsMap |-> MapSet(acc.goalsMap, [localGoal EXCEPT !.totalTimeSpent = sum]),
          conflicts |-> Append(acc.conflicts,
                          Conflict(localGoal, remoteGoal, localGoal.id, "local"))]
    ELSE LET useRemote == StrGreater(remoteGoal.instanceId, localGoal.instanceId) IN
         [goalsMap |-> IF useRemote
                       THEN MapSet(acc.goalsMap, [remoteGoal EXCEPT !.totalTimeSpent = sum])
                       ELSE MapSet(acc.goalsMap, [localGoal EXCEPT !.totalTimeSpent = sum]),
          conflicts |-> Append(acc.conflicts,
                          Conflict(localGoal, remoteGoal, remoteGoal.id,
                                   IF useRemote THEN "remote" ELSE "local"))]

\* one iteration of the loop over remoteGoals
MergeRemoteGoal(acc, remoteGoal) ==
    LET localGoal == MapGet(acc.goalsMap, remoteGoal.id) IN
    IF localGoal = Null
    THEN [goalsMap |-> MapSet(acc.goalsMap, remoteGoal),
          conflicts |-> acc.conflicts]
    ELSE IF remoteGoal.lastModified > localGoal.lastModified
    THEN [goalsMap |-> MapSet(acc.goalsMap, remoteGoal),
          conflicts |-> Append(acc.conflicts,
                          Conflict(localGoal, remoteGoal, remoteGoal.id, "remote"))]
    ELSE IF remoteGoal.lastModified < localGoal.lastModified
    THEN [goalsMap |-> acc.goalsMap,
          conflicts |-> Append(acc.conflicts,
                          Conflict(localGoal, remoteGoal, localGoal.id, "local"))]
    ELSE LET useRemote == StrGreater(remoteGoal.instanceId, localGoal.instanceId) IN
         [goalsMap |-> IF useRemote THEN MapSet(acc.goalsMap, remoteGoal)
                       ELSE acc.goalsMap,
          conflicts |-> Append(acc.conflicts,
                          Conflict(localGoal, remoteGoal, remoteGoal.id,
                                   IF useRemote THEN "remote" ELSE "local"))]

RECURSIVE MergeRemoteGoals(_, _)
MergeRemoteGoals(acc, remoteGoals) ==
    IF remoteGoals = <<>> THEN acc
    ELSE MergeRemoteGoals(MergeRemoteGoal(acc, Head(remoteGoals)), Tail(remoteGoals))

\* returns the goals array and the conflicts array after the pushes
mergeGoals(localGoals, remoteGoals, conflicts) ==
    LET acc == MergeRemoteGoals([goalsMap |-> MapFromArray(<<>>, localGoals),
                                 conflicts |-> conflicts], remoteGoals)
    IN [goals |-> acc.goalsMap, conflicts |-> acc.conflicts]

(***************************************************************************)
(* SyncManager.mergeSessions: union by id, the first inserted is kept,     *)
(* sorted by startTime.                                                    *)
(***************************************************************************)
RECURSIVE AddRemoteSessions_RemoteWins(_, _)
\* AddRemoteSessions that sets every remote session: of two records with
\* one id the remote one stays
AddRemoteSessions_RemoteWins(sessionsMap, remoteSessions) ==
    IF remoteSessions = <<>> THEN sessionsMap
    ELSE AddRemoteSessions_RemoteWins(
            MapSet(sessionsMap, Head(remoteSessions)), Tail(remoteSessions))

\* AddRemoteSessions without the test sessionsMap.has(session.id)
AddRemoteSessions_NoDedup(sessionsMap, remoteSessions) ==
    sessionsMap \o remoteSessions

RECURSIVE AddRemoteSessions(_, _)
AddRemoteSessions(sessionsMap, remoteSessions) ==
    IF remoteSessions = <<>> THEN sessionsMap
    ELSE AddRemoteSessions(
            IF ~MapHas(sessionsMap, Head(remoteSessions).id)
            THEN MapSet(sessionsMap, Head(remoteSessions))
            ELSE sessionsMap,
            Tail(remoteSessions))

\* mergeSessions without the final sort
mergeSessions_Unsorted(localSessions, remoteSessions) ==
    AddRemoteSessions(MapFromArray(<<>>, localSessions), remoteSessions)

mergeSessions(localSessions, remoteSessions) ==
    SortByStartTime(<<>>,
        AddRemoteSessions(MapFromArray(<<>>, localSessions), remoteSessions))

(***************************************************************************)
(* SyncManager.mergeAchievements: union by id, the earlier unlock is kept. *)
(***************************************************************************)
RECURSIVE AddRemoteAchievements_NoDedup(_, _)
\* AddRemoteAchievements without the map: every remote record is added
AddRemoteAchievements_NoDedup(achievementsMap, remoteAchievements) ==
    IF remoteAchievements = <<>> THEN achievementsMap
    ELSE AddRemoteAchievements_NoDedup(
             Append(achievementsMap, Head(remoteAchievements)),
             Tail(remoteAchievements))

RECURSIVE AddRemoteAchievements_RemoteOnTie(_, _)
\* AddRemoteAchievements with <= for < : the remote record replaces the
\* local one unlocked at the same time
AddRemoteAchievements_RemoteOnTie(achievementsMap, remoteAchievements) ==
    IF remoteAchievements = <<>> THEN achievementsMap
    ELSE LET achievement == Head(remoteAchievements)
             existing == MapGet(achievementsMap, achievement.id)
         IN AddRemoteAchievements_RemoteOnTie(
                IF existing = Null
                THEN MapSet(achievementsMap, achievement)
                ELSE IF achievement.unlockedAt <= existing.unlockedAt
                     THEN MapSet(achievementsMap, achievement)
                     ELSE achievementsMap,
                Tail(remoteAchievements))

RECURSIVE AddRemoteAchievements(_, _)
AddRemoteAchievements(achievementsMap, remoteAchievements) ==
    IF remoteAchievements = <<>> THEN achievementsMap
    ELSE LET achievement == Head(remoteAchievements)
             existing == MapGet(achievementsMap, achievement.id)
         IN AddRemoteAchievements(
                IF existing = Null
                THEN MapSet(achievementsMap, achievement)
                ELSE IF achievement.unlockedAt < existing.unlockedAt
                     THEN MapSet(achievementsMap, achievement)
                     ELSE achievementsMap,
                Tail(remoteAchievements))

mergeAchievements(localAchievements, remoteAchievements) ==
    AddRemoteAchievements(MapFromArray(<<>>, localAchievements), remoteAchievements)

(***************************************************************************)
(* SyncManager.mergeActiveSession: the most recently updated one.          *)
(***************************************************************************)
\* mergeActiveSession with >= for > : remote wins when lastUpdated is equal
mergeActiveSession_RemoteOnTie(localActive, remoteActive) ==
    IF localActive = Null /\ remoteActive = Null THEN Null
    ELSE IF localActive = Null THEN remoteActive
    ELSE IF remoteActive = Null THEN localActive
    ELSE IF remoteActive.lastUpdated >= localActive.lastUpdated
         THEN remoteActive ELSE localActive

mergeActiveSession(localActive, remoteActive) ==
    IF localActive = Null /\ remoteActive = Null THEN Null
    ELSE IF localActive = Null THEN remoteActive
    ELSE IF remoteActive = Null THEN localActive
    ELSE IF remoteActive.lastUpdated > localActive.lastUpdated
         THEN remoteActive ELSE localActive

(***************************************************************************)
(* SyncManager.merge                                                       *)
(***************************************************************************)
\* merge with the conflicts array kept by the manager from call to call
merge_SharedConflicts(self, localData, remoteData) ==
    LET kept == IF results = <<>> THEN <<>>
                ELSE results[Len(results)].out.conflicts
        g == mergeGoals(localData.goals, remoteData.goals, kept)
    IN
    [goals |-> g.goals,
     sessions |-> mergeSessions(localData.sessions, remoteData.sessions),
     achievements |-> mergeAchievements(localData.achievements,
                                        remoteData.achievements),
     activeSession |-> mergeActiveSession(localData.activeSession,
                                          remoteData.activeSession),
     conflicts |-> g.conflicts]

\* self is the SyncManager the method is called on
merge(self, localData, remoteData) ==
    LET g == mergeGoals(localData.goals, remoteData.goals, <<>>) IN
    [goals |-> g.goals,
     sessions |-> mergeSessions(localData.sessions, remoteData.sessions),
     achievements |-> mergeAchievements(localData.achievements,
                                        remoteData.achievements),
     activeSession |-> mergeActiveSession(localData.activeSession,
                                          remoteData.activeSession),
     conflicts |-> g.conflicts]

(***************************************************************************)
(* SyncManager.validateSyncData.  The value it is given comes from         *)
(* JSON.parse or from the peer, so it is a JavaScript value of any type:   *)
(* a record with its type t and, for an object, its properties.  A         *)
(* property that is absent reads as undefined.                             *)
(***************************************************************************)
JsUndefined == [t |-> "undefined"]
JsNull == [t |-> "null"]
JsNumber(n) == [t |-> "number", v |-> n]
JsString(str) == [t |-> "string", v |-> str]
JsBoolean(b) == [t |-> "boolean", v |-> b]
JsArray(xs) == [t |-> "array", v |-> xs]
JsObject(props) == [t |-> "object", v |-> props]

\* the typeof operator
TypeOf(x) ==
    IF x.t \in {"null", "array", "object"} THEN "object" ELSE x.t

\* !x
Falsy(x) ==
    \/ x.t \in {"undefined", "null"}
    \/ x.t = "number" /\ x.v = 0
    \/ x.t = "string" /\ x.v = ""
    \/ x.t = "boolean" /\ ~x.v

\* Array.isArray(x)
IsArray(x) == x.t = "array"

\* x.name: a TypeError on null and undefined, undefined where there is no
\* such property
Prop(x, name) ==
    IF x.t \in {"undefined", "null"} THEN [t |-> "TypeError"]
    ELSE IF x.t = "object" /\ name \in DOMAIN x.v THEN x.v[name]
    ELSE JsUndefined

\* validateSyncData without the test !data
validateSyncData_NoNullTest(x) ==
    IF TypeOf(x) # "object" THEN "false"
    ELSE IF Prop(x, "version").t = "TypeError" THEN "TypeError"
    ELSE IF TypeOf(Prop(x, "version")) # "number" THEN "false"
    ELSE IF TypeOf(Prop(x, "instanceId")) # "string" THEN "false"
    ELSE IF TypeOf(Prop(x, "exportedAt")) # "number" THEN "false"
    ELSE IF ~IsArray(Prop(x, "goals")) THEN "false"
    ELSE IF ~IsArray(Prop(x, "sessions")) THEN "false"
    ELSE IF ~IsArray(Prop(x, "achievements")) THEN "false"
    ELSE "true"

\* "true" or "false" for the boolean returned, "TypeError" for a throw
validateSyncData(x) ==
    IF Falsy(x) \/ TypeOf(x) # "object" THEN "false"
    ELSE IF Prop(x, "version").t = "TypeError" THEN "TypeError"
    ELSE IF TypeOf(Prop(x, "version")) # "number" THEN "false"
    ELSE IF TypeOf(Prop(x, "instanceId")) # "string" THEN "false"
    ELSE IF TypeOf(Prop(x, "exportedAt")) # "number" THEN "false"
    ELSE IF ~IsArray(Prop(x, "goals")) THEN "false"
    ELSE IF ~IsArray(Prop(x, "sessions")) THEN "false"
    ELSE IF ~IsArray(Prop(x, "achievements")) THEN "false"
    ELSE "true"

\* values of every type for a property of the candidate
PropertyValues ==
    {JsUndefined, JsNumber(1), JsString("x"), JsArray(<<>>)}

\* the same with an array that holds null
ArrayPropertyValues == PropertyValues \cup {JsArray(<<JsNull>>)}

\* the values validateSyncData is tried on: the values that are no object,
\* arrays, and objects with every combination of property types
Candidates ==
    {JsUndefined, JsNull, JsNumber(0), JsNumber(1), JsString(""),
     JsString("x"), JsBoolean(FALSE), JsBoolean(TRUE), JsArray(<<>>),
     JsArray(<<JsNull>>), JsObject(<<>>)}
    \cup {JsObject(props) :
            props \in [version : PropertyValues, instanceId : PropertyValues,
                       exportedAt : PropertyValues, goals : ArrayPropertyValues,
                       sessions : ArrayPropertyValues,
                       achievements : ArrayPropertyValues,
                       activeSession : {JsUndefined, JsNull, JsString("x")}]}

NotRun == "not run"

(***************************************************************************)
(* The snapshots the merge is run on.                                      *)
(***************************************************************************)
Goals == [id : GoalIds, lastModified : Times, instanceId : InstanceIds,
          totalTimeSpent : {0, 1}]

GoalSessions == [id : SessionIds, startTime : Times]

AchievementRecords == [id : AchievementIds, unlockedAt : Times, seen : BOOLEAN]

ActiveSessions == [goalId : GoalIds, startTime : {1}, lastUpdated : Times]

\* arrays of at most n elements of S in which no id occurs twice
UniqueIdArrays(S, n) ==
    {xs \in UNION {[1..k -> S] : k \in 0..n} :
        \A i, j \in 1..Len(xs) : xs[i].id = xs[j].id => i = j}

GoalArrays == UniqueIdArrays(Goals, MaxLen)
SessionArrays == UniqueIdArrays(GoalSessions, MaxLen)
AchievementArrays == UniqueIdArrays(AchievementRecords, MaxLen)
ActiveSessionValues == ActiveSessions \cup {Null}

\* Two snapshots that disagree on every kind of entity.  One kind at a time
\* ranges over all its arrays while the other kinds keep these values.
BaseLocal ==
    [goals |-> <<[id |-> "g1", lastModified |-> 1, instanceId |-> <<1, 2>>,
                  totalTimeSpent |-> 0]>>,
     sessions |-> <<[id |-> "s1", startTime |-> 2]>>,
     achievements |-> <<[id |-> "a1", unlockedAt |-> 2, seen |-> TRUE]>>,
     activeSession |-> [goalId |-> "g1", startTime |-> 1, lastUpdated |-> 1]]

BaseRemote ==
    [goals |-> <<[id |-> "g1", lastModified |-> 2, instanceId |-> <<2>>,
                  totalTimeSpent |-> 1]>>,
     sessions |-> <<[id |-> "s1", startTime |-> 1]>>,
     achievements |-> <<[id |-> "a1", unlockedAt |-> 1, seen |-> FALSE]>>,
     activeSession |-> [goalId |-> "g2", startTime |-> 1, lastUpdated |-> 2]]

\* the snapshots that differ from base in one kind of entity
Snapshots(base) ==
    {[base EXCEPT !.goals = g] : g \in GoalArrays}
    \cup {[base EXCEPT !.sessions = s] : s \in SessionArrays}
    \cup {[base EXCEPT !.achievements = a] : a \in AchievementArrays}
    \cup {[base EXCEPT !.activeSession = a] : a \in ActiveSessionValues}

\* the SyncManager of a device: the constructor reads its instance id
Managers == [instanceId : InstanceIds]

\* no value has been validated
ValidateIdle ==
    /\ data = JsUndefined
    /\ verdict = NotRun

\* no app is running
AppIdle ==
    /\ storage = Null
    /\ app = Null
    /\ last = Null

Init ==
    /\ now = 0
    /\ results = <<>>
    /\ ValidateIdle
    /\ AppIdle
    /\ \/ \E lg, rg \in GoalArrays :
             /\ local = [BaseLocal EXCEPT !.goals = lg]
             /\ remote = [BaseRemote EXCEPT !.goals = rg]
       \/ \E ls, rs \in SessionArrays :
             /\ local = [BaseLocal EXCEPT !.sessions = ls]
             /\ remote = [BaseRemote EXCEPT !.sessions = rs]
       \/ \E la, ra \in AchievementArrays :
             /\ local = [BaseLocal EXCEPT !.achievements = la]
             /\ remote = [BaseRemote EXCEPT !.achievements = ra]
       \/ \E la, ra \in ActiveSessionValues :
             /\ local = [BaseLocal EXCEPT !.activeSession = la]
             /\ remote = [BaseRemote EXCEPT !.activeSession = ra]
       \* a snapshot and an identical copy of it
       \/ \E s \in Snapshots(BaseLocal) \cup Snapshots(BaseRemote) :
             /\ local = s
             /\ remote = s

(***************************************************************************)
(* Actions.                                                                *)
(***************************************************************************)
\* InputsAfterMerge with the sessions of the two snapshots sorted in place
InputsAfterMerge_SortsInPlace(localData, remoteData) ==
    [local |-> [localData EXCEPT
                   !.sessions = SortByStartTime(<<>>, localData.sessions)],
     remote |-> [remoteData EXCEPT
                   !.sessions = SortByStartTime(<<>>, remoteData.sessions)]]

\* The two argument objects when merge returns.  The methods read the arrays
\* with for-of and Map.get, write to Maps they create themselves, sort the
\* array made by Array.from, and assign to no property of an element.
InputsAfterMerge(localData, remoteData) ==
    [local |-> localData, remote |-> remoteData]

\* a call of merge(local, remote) on the SyncManager of some device; the
\* clock has advanced when the call returns
Merge ==
    /\ Len(results) < MaxRuns
    /\ \E self \in Managers :
          results' = Append(results, [at |-> now, by |-> self.instanceId,
                                      out |-> merge(self, local, remote)])
    /\ now' = now + 1
    /\ local' = InputsAfterMerge(local, remote).local
    /\ remote' = InputsAfterMerge(local, remote).remote
    /\ UNCHANGED <<data, verdict, storage, app, last>>

Next == Merge

Spec == Init /\ [][Next]_vars

(***************************************************************************)
(* validateSyncData on its own: one call on any candidate.                 *)
(***************************************************************************)
\* no merge is made
MergeIdle ==
    /\ local = Null
    /\ remote = Null
    /\ results = <<>>

InitValidate ==
    /\ now = 0
    /\ MergeIdle
    /\ AppIdle
    /\ data \in Candidates
    /\ verdict = NotRun

\* a call of syncManager.validateSyncData(data)
Validate ==
    /\ verdict = NotRun
    /\ verdict' = validateSyncData(data)
    /\ UNCHANGED <<local, remote, now, results, data, storage, app, last>>

NextValidate == Validate

SpecValidate == InitValidate /\ [][NextValidate]_vars

(***************************************************************************)
(* MasteryApp over localStorage: the stores, the achievement evaluation    *)
(* and the two handlers that merge an incoming snapshot.                   *)
(***************************************************************************)
MaxOps == 2      \* operations of the app per behaviour
MaxEvals == 3    \* calls of evaluateAchievements per behaviour
MaxSteps == 5    \* steps of a device from its first start

MsPerHour == 3600000

GOAL_PROGRESS_THRESHOLDS == <<25, 50, 75, 100>>

\* goal.startTime === undefined
NoStartTime == 0

\* getLastBackup() === null
NoBackup == 0

\* the instance id in the localStorage of this device and of the other one
LocalInstanceId == <<1, 2>>
RemoteInstanceId == <<2>>

hoursToMilliseconds(hours) == hours * MsPerHour

\* the id is the pair of the goal id and the percentage
encodeGoalProgressId(goalId, percent) == [goal |-> goalId, progress |-> percent]

createGoalProgressDefinition(goal, percent) ==
    [id |-> encodeGoalProgressId(goal.id, percent), goalId |-> goal.id,
     threshold |-> percent]

buildAchievementDefinitionsForGoal(goal) ==
    [i \in 1..Len(GOAL_PROGRESS_THRESHOLDS) |->
        createGoalProgressDefinition(goal, GOAL_PROGRESS_THRESHOLDS[i])]

RECURSIVE buildAchievementDefinitions(_)
buildAchievementDefinitions(goals) ==
    IF goals = <<>> THEN <<>>
    ELSE buildAchievementDefinitionsForGoal(Head(goals))
         \o buildAchievementDefinitions(Tail(goals))

\* goals.map(goal => goal.id) as a set
GoalIdSet(goals) == {goals[i].id : i \in 1..Len(goals)}

\* Reached with > for >= : a threshold met exactly is not unlocked
Reached_Strict(goal, definition) ==
    /\ hoursToMilliseconds(goal.totalHours) > 0
    /\ goal.totalTimeSpent
         > definition.threshold * (hoursToMilliseconds(goal.totalHours) \div 100)

\* the test totalMs > 0 and completionRatio >= requiredRatio, multiplied
\* out: the milliseconds of a whole number of hours are a multiple of 100,
\* and the four ratios 0.25, 0.5, 0.75 and 1 are exact as doubles
Reached(goal, definition) ==
    /\ hoursToMilliseconds(goal.totalHours) > 0
    /\ goal.totalTimeSpent
         >= definition.threshold * (hoursToMilliseconds(goal.totalHours) \div 100)

\* UnlockReached that unlocks a reached threshold again: its record gets
\* the time of this call
RECURSIVE UnlockReached_Restamps(_, _, _, _)
UnlockReached_Restamps(records, definitions, goals, time) ==
    IF definitions = <<>> THEN records
    ELSE LET definition == Head(definitions)
             goal == MapGet(MapFromArray(<<>>, goals), definition.goalId)
             unlock == goal # Null /\ Reached(goal, definition)
         IN UnlockReached_Restamps(
                IF unlock
                THEN MapSet(records, [id |-> definition.id, goalId |-> goal.id,
                                      unlockedAt |-> time, seen |-> FALSE])
                ELSE records,
                Tail(definitions), goals, time)

\* the loop over the definitions: a record is pushed for each one that is
\* reached and has no record yet
RECURSIVE UnlockReached(_, _, _, _)
UnlockReached(records, definitions, goals, time) ==
    IF definitions = <<>> THEN records
    ELSE LET definition == Head(definitions)
             goal == MapGet(MapFromArray(<<>>, goals), definition.goalId)
             unlock == /\ goal # Null
                       /\ Reached(goal, definition)
                       /\ ~MapHas(records, definition.id)
         IN UnlockReached(
                IF unlock
                THEN Append(records, [id |-> definition.id, goalId |-> goal.id,
                                      unlockedAt |-> time, seen |-> FALSE])
                ELSE records,
                Tail(definitions), goals, time)

\* the goal id and the percentage of an id that encodeGoalProgressId made,
\* null for any other id
decodeGoalProgressId(id) ==
    IF DOMAIN id = {"goal", "progress"}
    THEN [goalId |-> id.goal, percent |-> id.progress]
    ELSE Null

\* the definition of a record's id: the one of the goal when the goal is
\* on the list, a generic one when it is not, undefined (Null) when the id
\* cannot be decoded
resolveAchievementDefinition(id, goals) ==
    LET decoded == decodeGoalProgressId(id) IN
    IF decoded = Null THEN Null
    ELSE IF decoded.goalId \in GoalIdSet(goals)
         THEN createGoalProgressDefinition(
                  MapGet(MapFromArray(<<>>, goals), decoded.goalId),
                  decoded.percent)
         ELSE [id |-> id, goalId |-> decoded.goalId, threshold |-> decoded.percent]

\* EvaluateCall that leaves the announced records unseen
EvaluateCall_KeepsUnseen(goals, achievements, notify, time) ==
    LET saved == UnlockReached(
                     SelectSeq(achievements,
                               LAMBDA record : record.goalId \in GoalIdSet(goals)),
                     buildAchievementDefinitions(goals), goals, time)
        unseen == SelectSeq(saved, LAMBDA record : ~record.seen)
        unseenDefinitions ==
            SelectSeq([i \in 1..Len(unseen) |->
                          resolveAchievementDefinition(unseen[i].id, goals)],
                      LAMBDA definition : definition # Null)
        celebrate == notify /\ unseenDefinitions # <<>>
    IN [saved |-> saved,
        announced |-> IF celebrate THEN unseenDefinitions ELSE <<>>,
        records |-> saved]

\* One call of evaluateAchievements(notify) at the given time on this.goals
\* and this.achievements: the records of the first saveAchievements, the
\* definitions handed to showAchievementCelebration, and the records that
\* this.achievements and the store hold at the end.
EvaluateCall(goals, achievements, notify, time) ==
    LET saved == UnlockReached(
                     SelectSeq(achievements,
                               LAMBDA record : record.goalId \in GoalIdSet(goals)),
                     buildAchievementDefinitions(goals), goals, time)
        unseen == SelectSeq(saved, LAMBDA record : ~record.seen)
        unseenDefinitions ==
            SelectSeq([i \in 1..Len(unseen) |->
                          resolveAchievementDefinition(unseen[i].id, goals)],
                      LAMBDA definition : definition # Null)
        celebrate == notify /\ unseenDefinitions # <<>>
    IN [saved |-> saved,
        announced |-> IF celebrate THEN unseenDefinitions ELSE <<>>,
        records |-> IF celebrate
                    THEN [i \in 1..Len(saved) |-> [saved[i] EXCEPT !.seen = TRUE]]
                    ELSE saved]

\* the records that evaluateAchievements assigns to this.achievements and
\* saves, from this.goals and this.achievements
evaluateAchievements(goals, achievements, notify, time) ==
    EvaluateCall(goals, achievements, notify, time).records

\* createSyncData of the four stores
createSyncData(self, goals, sessions, achievements, activeSession) ==
    [version |-> 1, instanceId |-> self.instanceId, exportedAt |-> now,
     goals |-> goals, sessions |-> sessions, achievements |-> achievements,
     activeSession |-> activeSession]

(***************************************************************************)
(* The states of a device and the values that come in.  A device has at    *)
(* most the goals g1 and g2; the one that is running, if any, is first     *)
(* (startGoal moves it there) and has its active session saved; a goal     *)
(* with time spent has the session that added it and the achievement       *)
(* records it has reached.                                                 *)
(***************************************************************************)
\* the time of the last change on this device, and on the other device
LocalTime == 2
RemoteTimes == {1, 3}

SpentValues == {0, MsPerHour \div 4}

\* a goal last changed at the given time; a running goal was started then
Goal(id, time, instanceId, spent, active) ==
    [id |-> id, lastModified |-> time, instanceId |-> instanceId,
     totalTimeSpent |-> spent, totalHours |-> 1, isActive |-> active,
     startTime |-> IF active THEN time ELSE NoStartTime,
     isArchived |-> FALSE]

GoalVersions(id, times, instanceId) ==
    {Goal(id, time, instanceId, spent, active) :
        time \in times, spent \in SpentValues, active \in BOOLEAN}

GoalLists(times, instanceId) ==
    LET G1 == GoalVersions("g1", times, instanceId)
        G2 == GoalVersions("g2", times, instanceId)
    IN {<<>>}
       \cup {<<g>> : g \in G1 \cup G2}
       \cup {<<a, b>> : a \in G1, b \in {g \in G2 : ~g.isActive}}
       \cup {<<b, a>> : b \in {g \in G2 : g.isActive},
                        a \in {g \in G1 : ~g.isActive}}

\* the session that stopGoal or handleManualTimeSubmit appended for a goal
Session(goal) ==
    [id |-> [goal |-> goal.id, by |-> goal.instanceId], goalId |-> goal.id,
     startTime |-> goal.lastModified, endTime |-> goal.lastModified,
     duration |-> goal.totalTimeSpent, instanceId |-> goal.instanceId]

RECURSIVE SessionsOf(_)
SessionsOf(goals) ==
    IF goals = <<>> THEN <<>>
    ELSE (IF Head(goals).totalTimeSpent > 0 THEN <<Session(Head(goals))>>
          ELSE <<>>) \o SessionsOf(Tail(goals))

\* the active session that startGoal saved for the running goal
ActiveSessionOf(goals) ==
    IF goals # <<>> /\ Head(goals).isActive
    THEN [goalId |-> Head(goals).id, startTime |-> Head(goals).startTime,
          lastUpdated |-> Head(goals).startTime]
    ELSE Null

\* the four stores of a device with the given goals, whose achievements
\* were unlocked at the given time
Stores(goals, unlockedAt, seen) ==
    [goals |-> goals,
     sessions |-> SessionsOf(goals),
     achievements |-> evaluateAchievements(goals, <<>>, seen, unlockedAt),
     activeSession |-> ActiveSessionOf(goals),
     lastBackup |-> NoBackup]

LocalStores ==
    {Stores(goals, LocalTime, TRUE) : goals \in GoalLists({LocalTime}, LocalInstanceId)}

RemoteStores ==
    {Stores(goals, 1, FALSE) : goals \in GoalLists(RemoteTimes, RemoteInstanceId)}

\* the snapshot the other device exported from its stores, as the value
\* that JSON.parse or the data channel delivers
Exported(stores, version) ==
    JsObject([version |-> JsNumber(version),
              instanceId |-> JsString(RemoteInstanceId),
              exportedAt |-> JsNumber(3),
              goals |-> JsArray(stores.goals),
              sessions |-> JsArray(stores.sessions),
              achievements |-> JsArray(stores.achievements),
              activeSession |-> IF stores.activeSession = Null THEN JsNull
                                ELSE stores.activeSession])

\* an export made by version 1 without the property activeSession
ExportedWithoutActiveSession(stores) ==
    JsObject([version |-> JsNumber(1),
              instanceId |-> JsString(RemoteInstanceId),
              exportedAt |-> JsNumber(3),
              goals |-> JsArray(stores.goals),
              sessions |-> JsArray(stores.sessions),
              achievements |-> JsArray(stores.achievements)])

\* the exports of a device with one goal
SingleGoalStores == {stores \in RemoteStores : Len(stores.goals) = 1}

\* an export with null for an element of one array
WithNullElement ==
    LET x == Exported(Stores(<<>>, 1, FALSE), 1) IN
    {[x EXCEPT !.v.goals = JsArray(<<JsNull>>)],
     [x EXCEPT !.v.sessions = JsArray(<<JsNull>>)],
     [x EXCEPT !.v.achievements = JsArray(<<JsNull>>)]}

\* values that are no snapshot
NoSnapshot ==
    {JsNull, JsString("x"), JsObject(<<>>),
     [Exported(Stores(<<>>, 1, FALSE), 1) EXCEPT !.v.version = JsString("1")],
     [Exported(Stores(<<>>, 1, FALSE), 1) EXCEPT !.v.goals = JsNull]}

\* the values handed to importBackup (after JSON.parse) and to handleP2PSync
Incoming ==
    {Exported(stores, 1) : stores \in RemoteStores}
    \cup {Exported(stores, version) : stores \in SingleGoalStores, version \in {0, 2}}
    \cup {ExportedWithoutActiveSession(stores) : stores \in SingleGoalStores}
    \cup WithNullElement
    \cup NoSnapshot

\* the value of type SyncData that validateSyncData vouches for
AsSyncData(x) ==
    [version |-> x.v.version.v, instanceId |-> x.v.instanceId.v,
     exportedAt |-> x.v.exportedAt.v,
     goals |-> x.v.goals.v, sessions |-> x.v.sessions.v,
     achievements |-> x.v.achievements.v,
     activeSession |-> IF "activeSession" \notin DOMAIN x.v THEN Null
                       ELSE IF "t" \in DOMAIN x.v.activeSession THEN Null
                       ELSE x.v.activeSession]

\* nothing has been done yet
NoOperation ==
    [op |-> "none", status |-> "none", confirmed |-> TRUE, local |-> Null,
     merged |-> Null]

\* the app after its constructor, and a value about to come in
InitApp ==
    /\ now = LocalTime + 2
    /\ ValidateIdle
    /\ local = Null
    /\ results = <<>>
    /\ remote \in Incoming
    /\ storage \in LocalStores
    /\ app = [goals |-> storage.goals, achievements |-> storage.achievements]
    /\ last = NoOperation

(***************************************************************************)
(* storage.ts: what the load functions return for the stored arrays.  The  *)
(* stored elements have the types the app writes, so the conversions keep  *)
(* every field; the instanceId that loadAchievements adds to a record is   *)
(* not represented.                                                        *)
(***************************************************************************)
sanitizeGoal(raw) ==
    [id |-> raw.id, lastModified |-> raw.lastModified,
     instanceId |-> raw.instanceId, totalTimeSpent |-> raw.totalTimeSpent,
     totalHours |-> raw.totalHours, isActive |-> raw.isActive,
     startTime |-> raw.startTime, isArchived |-> raw.isArchived]

loadGoals == [i \in 1..Len(storage.goals) |-> sanitizeGoal(storage.goals[i])]

loadSessions == storage.sessions

loadAchievements == storage.achievements

getActiveSession == storage.activeSession

\* the SyncManager of this device
syncManager == [instanceId |-> LocalInstanceId]

\* x.id throws for an element x that is null
HasNull(xs) == \E i \in 1..Len(xs) : xs[i] = JsNull

\* getSyncStats reads goal.totalTimeSpent and s.startTime of every element
getSyncStatsThrows(syncData) ==
    HasNull(syncData.goals) \/ HasNull(syncData.sessions)

\* merge reads the id of every element of the three arrays
mergeThrows(syncData) ==
    HasNull(syncData.goals) \/ HasNull(syncData.sessions)
        \/ HasNull(syncData.achievements)

\* The stores after saveGoals, saveSessions, saveAchievements and
\* saveActiveSession of the merge result, when the write number failAt
\* throws (localStorage.setItem throws when the quota is exceeded) and
\* failAt = 0 for no failure: the writes before it have been made.
SaveMerged(mergeResult, failAt) ==
    [goals |-> IF failAt = 0 \/ failAt > 1 THEN mergeResult.goals
               ELSE storage.goals,
     sessions |-> IF failAt = 0 \/ failAt > 2 THEN mergeResult.sessions
                  ELSE storage.sessions,
     achievements |-> IF failAt = 0 \/ failAt > 3 THEN mergeResult.achievements
                      ELSE storage.achievements,
     activeSession |-> IF failAt = 0 THEN mergeResult.activeSession
                       ELSE storage.activeSession,
     lastBackup |-> storage.lastBackup]

\* saveActiveSession(null) calls removeItem, which does not throw
CanFailAt(mergeResult, failAt) ==
    failAt = 4 => mergeResult.activeSession # Null

\* "this.goals = loadGoals(); this.evaluateAchievements(false)" on the
\* stores st: the stores and the fields of the app afterwards
ReloadAndEvaluate(st) ==
    LET goals == [i \in 1..Len(st.goals) |-> sanitizeGoal(st.goals[i])]
        records == evaluateAchievements(goals, app.achievements, FALSE, now)
    IN [storage |-> [st EXCEPT !.achievements = records],
        app |-> [goals |-> goals, achievements |-> records]]

\* the handler returned, or caught an exception, before the first write
EndedEarly(op, status, confirmed) ==
    /\ last' = [op |-> op, status |-> status, confirmed |-> confirmed,
                local |-> Null, merged |-> Null]
    /\ UNCHANGED <<storage, app>>

\* importBackupGate that goes on to merge when the user declines
importBackupGate_IgnoresConfirm(parsed, confirmed) ==
    IF validateSyncData(parsed) # "true" THEN "rejected"
    ELSE IF getSyncStatsThrows(AsSyncData(parsed)) THEN "threw"
    ELSE IF mergeThrows(AsSyncData(parsed)) THEN "threw"
    ELSE "merge"

\* How far importBackup gets before its first write: it returns when the
\* validation fails ("rejected") or the user declines ("declined"), it
\* lands in its catch block when getSyncStats or merge throws ("threw"),
\* or it has a merge result to save ("merge").
importBackupGate(parsed, confirmed) ==
    IF validateSyncData(parsed) # "true" THEN "rejected"
    ELSE IF getSyncStatsThrows(AsSyncData(parsed)) THEN "threw"
    ELSE IF ~confirmed THEN "declined"
    ELSE IF mergeThrows(AsSyncData(parsed)) THEN "threw"
    ELSE "merge"

\* the same for handleP2PSync, which asks nothing
handleP2PSyncGate(remoteData) ==
    IF validateSyncData(remoteData) # "true" THEN "rejected"
    ELSE IF mergeThrows(AsSyncData(remoteData)) THEN "threw"
    ELSE "merge"

\* Both handlers from the merge on: the four saves, and when none of them
\* throws, the reload of this.goals and evaluateAchievements(false).
MergeAndSave(op, incoming, confirmed, failAt, lastBackup) ==
    LET localData == createSyncData(syncManager, loadGoals, loadSessions,
                                    loadAchievements, getActiveSession)
        mergeResult == merge(syncManager, localData, AsSyncData(incoming))
        after == ReloadAndEvaluate(SaveMerged(mergeResult, 0))
    IN /\ CanFailAt(mergeResult, failAt)
       /\ last' = [op |-> op, status |-> IF failAt = 0 THEN "done" ELSE "failed",
                   confirmed |-> confirmed, local |-> localData,
                   merged |-> mergeResult]
       /\ IF failAt = 0
          THEN /\ storage' = [after.storage EXCEPT !.lastBackup = lastBackup]
               /\ app' = after.app
          ELSE /\ storage' = SaveMerged(mergeResult, failAt)
               /\ app' = app

\* importBackup(jsonText) where JSON.parse(jsonText) is the incoming value
ImportBackup ==
    /\ now < LocalTime + 2 + MaxOps
    /\ now' = now + 1
    /\ \E confirmed \in BOOLEAN, failAt \in 0..4 :
          LET gate == importBackupGate(remote, confirmed) IN
          IF gate # "merge"
          THEN failAt = 0 /\ EndedEarly("import", gate, confirmed)
          ELSE MergeAndSave("import", remote, confirmed, failAt, now)
    /\ UNCHANGED <<local, remote, results, data, verdict>>

\* handleP2PSync(remoteData) on the incoming value
\* handleP2PSync(remoteData), where a write may fail at one of the given
\* places
handleP2PSync(remoteData, failures) ==
    \E failAt \in failures :
        LET gate == handleP2PSyncGate(remoteData) IN
        IF gate # "merge"
        THEN failAt = 0 /\ EndedEarly("sync", gate, TRUE)
        ELSE MergeAndSave("sync", remoteData, TRUE, failAt, storage.lastBackup)

HandleP2PSync ==
    /\ now < LocalTime + 2 + MaxOps
    /\ now' = now + 1
    /\ handleP2PSync(remote, 0..4)
    /\ UNCHANGED <<local, remote, results, data, verdict>>

\* the goal that stopGoal stops: it is running and has a start time
Running(goal) == goal.isActive /\ goal.startTime # NoStartTime

\* the session with the time of the stop as its duration
StoppedSession_DurationIsEnd(goal, time) ==
    [id |-> [goal |-> goal.id, by |-> LocalInstanceId, at |-> time],
     goalId |-> goal.id, startTime |-> goal.startTime, endTime |-> time,
     duration |-> time, instanceId |-> LocalInstanceId]

\* the session stopGoal appends for a running goal; the fresh id is the
\* goal, the device and the time
StoppedSession(goal, time) ==
    [id |-> [goal |-> goal.id, by |-> LocalInstanceId, at |-> time],
     goalId |-> goal.id, startTime |-> goal.startTime, endTime |-> time,
     duration |-> time - goal.startTime, instanceId |-> LocalInstanceId]

RECURSIVE StoppedSessions(_, _)
StoppedSessions(goals, time) ==
    IF goals = <<>> THEN <<>>
    ELSE (IF Running(Head(goals)) THEN <<StoppedSession(Head(goals), time)>>
          ELSE <<>>) \o StoppedSessions(Tail(goals), time)

\* stopGoal() on the stores st and the fields ap of the app
stopGoal(st, ap, time) ==
    LET changed == \E i \in 1..Len(ap.goals) : Running(ap.goals[i])
        goals == [i \in 1..Len(ap.goals) |->
                     IF Running(ap.goals[i])
                     THEN [ap.goals[i] EXCEPT
                              !.isActive = FALSE,
                              !.startTime = NoStartTime,
                              !.totalTimeSpent = @ + (time - ap.goals[i].startTime),
                              !.lastModified = time]
                     ELSE ap.goals[i]]
        records == evaluateAchievements(goals, ap.achievements, changed, time)
    IN [storage |-> [st EXCEPT
                        !.sessions = @ \o StoppedSessions(ap.goals, time),
                        !.goals = IF changed THEN goals ELSE @,
                        !.activeSession = Null,
                        !.achievements = records],
        app |-> [goals |-> goals, achievements |-> records]]

\* a handler of the app other than the two that merge ran to its end
Done(op) ==
    [op |-> op, status |-> "done", confirmed |-> TRUE, local |-> Null,
     merged |-> Null]

\* deleteGoal(goalId) for the i-th goal of the list
deleteGoal(i) ==
    LET goalId == app.goals[i].id
        stopped == IF app.goals[i].isActive
                   THEN stopGoal(storage, app, now)
                   ELSE [storage |-> storage, app |-> app]
        goals == SelectSeq(stopped.app.goals, LAMBDA g : g.id # goalId)
        records == evaluateAchievements(goals, stopped.app.achievements,
                                        FALSE, now)
    IN /\ storage' = [stopped.storage EXCEPT !.goals = goals,
                                             !.achievements = records]
       /\ app' = [goals |-> goals, achievements |-> records]
       /\ last' = Done("delete")

DeleteGoal ==
    /\ now < LocalTime + 2 + MaxOps
    /\ now' = now + 1
    /\ \E i \in 1..Len(app.goals) : deleteGoal(i)
    /\ UNCHANGED <<local, remote, results, data, verdict>>

NextApp ==
    \/ ImportBackup
    \/ HandleP2PSync
    \/ DeleteGoal

SpecApp == InitApp /\ [][NextApp]_vars

(***************************************************************************)
(* evaluateAchievements on its own.  The app holds one or two goals and    *)
(* the records an earlier evaluation left; each step is a caller that has  *)
(* possibly added time to a goal (handleManualTimeSubmit, stopGoal, a      *)
(* merge) and then calls evaluateAchievements(notify).                     *)
(***************************************************************************)
\* planned hours of a goal, and the time spent on it at the start
PlannedHours == {0, 1, 10}
SpentAtStart == {0, MsPerHour \div 2, 5 * MsPerHour}

\* a stopped goal with the given plan and time spent
PlannedGoal(id, totalHours, spent) ==
    [Goal(id, 1, LocalInstanceId, spent, FALSE) EXCEPT !.totalHours = totalHours]

PlannedGoalLists ==
    LET G1 == {PlannedGoal("g1", totalHours, spent) :
                  totalHours \in PlannedHours, spent \in SpentAtStart}
        g2 == PlannedGoal("g2", 1, 0)
    IN {<<g>> : g \in G1} \cup {<<g, g2>> : g \in G1}

\* the ids of the records that have been announced
SeenIds(records) == {records[i].id : i \in {j \in DOMAIN records : records[j].seen}}

\* what the last call was given and what it did; earlier holds the ids
\* that calls before it announced
EvaluateLog(op, notify, goals, before, call, earlier) ==
    [op |-> op, notify |-> notify, time |-> now, goals |-> goals,
     before |-> before, saved |-> call.saved, announced |-> call.announced,
     earlier |-> earlier]

InitEvaluate ==
    /\ now = 2
    /\ ValidateIdle
    /\ MergeIdle
    /\ \E goals \in PlannedGoalLists :
       \E records \in {<<>>} \cup {evaluateAchievements(goals, <<>>, seen, 1) :
                                      seen \in BOOLEAN} :
          /\ storage = [Stores(goals, 1, FALSE) EXCEPT !.achievements = records]
          /\ app = [goals |-> goals, achievements |-> records]
          /\ last = [op |-> "none", notify |-> FALSE, time |-> 0, goals |-> goals,
                     before |-> records, saved |-> records, announced |-> <<>>,
                     earlier |-> SeenIds(records)]

\* the goals after the caller added the amount to the time of goal i
WithTimeAdded(goals, i, amount) ==
    [goals EXCEPT ![i].totalTimeSpent = @ + amount,
                  ![i].lastModified = IF amount > 0 THEN now ELSE @]

\* a caller adds time to a goal, or none, and calls evaluateAchievements
Evaluate ==
    /\ now < 2 + MaxEvals
    /\ now' = now + 1
    /\ \E notify \in BOOLEAN, i \in 1..Len(app.goals),
          amount \in {0, MsPerHour \div 4} :
          LET goals == WithTimeAdded(app.goals, i, amount)
              call == EvaluateCall(goals, app.achievements, notify, now)
          IN /\ app' = [goals |-> goals, achievements |-> call.records]
             /\ storage' = [storage EXCEPT !.goals = goals,
                                           !.achievements = call.records]
             /\ last' = EvaluateLog("evaluate", notify, goals, app.achievements,
                                    call, last.earlier \cup {last.announced[k].id :
                                        k \in DOMAIN last.announced})
    /\ UNCHANGED <<local, remote, results, data, verdict>>

NextEvaluate == Evaluate

SpecEvaluate == InitEvaluate /\ [][NextEvaluate]_vars

(***************************************************************************)
(* The handlers of the goal cards and of the page, on the stores st and    *)
(* the fields ap of the app, at the time Date.now() returns.  Each gives   *)
(* the stores and the fields it leaves.                                    *)
(***************************************************************************)
\* goals.findIndex(test): the first index, 0 for the -1 of JavaScript
FindIndex(goals, Test(_)) ==
    IF \E i \in 1..Len(goals) : Test(goals[i])
    THEN CHOOSE i \in 1..Len(goals) :
             Test(goals[i]) /\ \A j \in 1..(i - 1) : ~Test(goals[j])
    ELSE 0

\* goals.splice(i, 1): the goals without the one at i
Splice(goals, i) == [j \in 1..(Len(goals) - 1) |-> IF j < i THEN goals[j] ELSE goals[j + 1]]

\* the ids crypto.randomUUID() gives to the goals made on this device
LocalGoalIds == <<"g2", "g3">>

\* an id that no goal and no session of the device holds
FreshGoalIndex(st, ap) ==
    FindIndex(LocalGoalIds,
              LAMBDA id : /\ id \notin GoalIdSet(ap.goals)
                          /\ id \notin GoalIdSet(st.goals)
                          /\ \A k \in DOMAIN st.sessions : st.sessions[k].goalId # id)

addGoal(st, ap, totalHours, time) ==
    LET goal == [PlannedGoal(LocalGoalIds[FreshGoalIndex(st, ap)], totalHours, 0)
                    EXCEPT !.lastModified = time]
        goals == Append(ap.goals, goal)
        records == evaluateAchievements(goals, ap.achievements, FALSE, time)
    IN [storage |-> [st EXCEPT !.goals = goals, !.achievements = records],
        app |-> [goals |-> goals, achievements |-> records]]

\* startGoal without the stopGoal() for the goal that is running
startGoal_KeepsOther(st, ap, goalId, time) ==
    LET active == FindIndex(ap.goals, LAMBDA g : g.isActive)
        goalIndex == FindIndex(ap.goals, LAMBDA g : g.id = goalId)
    IN IF active # 0 /\ ap.goals[active].id = goalId
       THEN [storage |-> st, app |-> ap]
       ELSE IF goalIndex = 0 THEN [storage |-> st, app |-> ap]
       ELSE IF ap.goals[goalIndex].isArchived THEN [storage |-> st, app |-> ap]
       ELSE LET goal == [ap.goals[goalIndex] EXCEPT
                            !.isActive = TRUE, !.startTime = time,
                            !.lastModified = time]
                goals == <<goal>> \o Splice(ap.goals, goalIndex)
            IN [storage |-> [st EXCEPT
                                !.goals = goals,
                                !.activeSession =
                                    [goalId |-> goal.id, startTime |-> goal.startTime,
                                     lastUpdated |-> time]],
                app |-> [ap EXCEPT !.goals = goals]]

startGoal(st, ap, goalId, time) ==
    LET active == FindIndex(ap.goals, LAMBDA g : g.isActive)
        stopped == IF active # 0 /\ ap.goals[active].id # goalId
                   THEN stopGoal(st, ap, time)
                   ELSE [storage |-> st, app |-> ap]
        goalIndex == FindIndex(stopped.app.goals, LAMBDA g : g.id = goalId)
    IN IF active # 0 /\ ap.goals[active].id = goalId
       THEN [storage |-> st, app |-> ap]
       ELSE IF goalIndex = 0 THEN stopped
       ELSE IF stopped.app.goals[goalIndex].isArchived THEN stopped
       ELSE LET goal == [stopped.app.goals[goalIndex] EXCEPT
                            !.isActive = TRUE, !.startTime = time,
                            !.lastModified = time]
                goals == <<goal>> \o Splice(stopped.app.goals, goalIndex)
            IN [storage |-> [stopped.storage EXCEPT
                                !.goals = goals,
                                !.activeSession =
                                    [goalId |-> goal.id, startTime |-> goal.startTime,
                                     lastUpdated |-> time]],
                app |-> [stopped.app EXCEPT !.goals = goals]]

\* the session of the add-time form for the goal: it ends at the time of
\* the call and starts the duration before it
ManualSession(goalId, duration, time) ==
    [id |-> [goal |-> goalId, by |-> LocalInstanceId, at |-> time],
     goalId |-> goalId, startTime |-> time - duration, endTime |-> time,
     duration |-> duration, instanceId |-> LocalInstanceId]

\* handleManualTimeSubmit without the assignment to goal.lastModified
handleManualTimeSubmit_NoStamp(st, ap, addTimeGoalId, duration, time) ==
    LET i == FindIndex(ap.goals, LAMBDA g : g.id = addTimeGoalId)
        goals == IF i = 0 THEN ap.goals
                 ELSE [ap.goals EXCEPT ![i].totalTimeSpent = @ + duration]
        records == evaluateAchievements(goals, ap.achievements, TRUE, time)
    IN [storage |-> [st EXCEPT
                        !.sessions = Append(@, ManualSession(addTimeGoalId,
                                                             duration, time)),
                        !.goals = IF i = 0 THEN @ ELSE goals,
                        !.achievements = records],
        app |-> [goals |-> goals, achievements |-> records]]

\* the hours are above 0 and within the daily limit
handleManualTimeSubmit(st, ap, addTimeGoalId, duration, time) ==
    LET i == FindIndex(ap.goals, LAMBDA g : g.id = addTimeGoalId)
        goals == IF i = 0 THEN ap.goals
                 ELSE [ap.goals EXCEPT ![i].totalTimeSpent = @ + duration,
                                       ![i].lastModified = time]
        records == evaluateAchievements(goals, ap.achievements, TRUE, time)
    IN [storage |-> [st EXCEPT
                        !.sessions = Append(@, ManualSession(addTimeGoalId,
                                                             duration, time)),
                        !.goals = IF i = 0 THEN @ ELSE goals,
                        !.achievements = records],
        app |-> [goals |-> goals, achievements |-> records]]

archiveGoal(st, ap, goalId, time) ==
    LET i == FindIndex(ap.goals, LAMBDA g : g.id = goalId)
        stopped == IF ap.goals[i].isActive THEN stopGoal(st, ap, time)
                   ELSE [storage |-> st, app |-> ap]
        goals == [j \in 1..Len(stopped.app.goals) |->
                     IF stopped.app.goals[j].id = goalId
                     THEN [stopped.app.goals[j] EXCEPT
                              !.isActive = FALSE, !.startTime = NoStartTime,
                              !.isArchived = TRUE, !.lastModified = time]
                     ELSE stopped.app.goals[j]]
    IN IF i = 0 THEN [storage |-> st, app |-> ap]
       ELSE [storage |-> [stopped.storage EXCEPT !.goals = goals],
             app |-> [stopped.app EXCEPT !.goals = goals]]

restoreGoal(st, ap, goalId, time) ==
    LET index == FindIndex(ap.goals, LAMBDA g : g.id = goalId)
        restored == [ap.goals[index] EXCEPT
                        !.isArchived = FALSE, !.isActive = FALSE,
                        !.startTime = NoStartTime, !.lastModified = time]
        goals == <<restored>> \o Splice(ap.goals, index)
    IN IF index = 0 THEN [storage |-> st, app |-> ap]
       ELSE [storage |-> [st EXCEPT !.goals = goals],
             app |-> [ap EXCEPT !.goals = goals]]

\* the listeners of visibilitychange (hidden) and beforeunload
setupPersistence(st, ap, time) ==
    LET active == FindIndex(ap.goals, LAMBDA g : Running(g)) IN
    IF active = 0 THEN [storage |-> st, app |-> ap]
    ELSE [storage |-> [st EXCEPT
                          !.activeSession =
                              [goalId |-> ap.goals[active].id,
                               startTime |-> ap.goals[active].startTime,
                               lastUpdated |-> time]],
          app |-> ap]

\* restoreActiveSession without the test of isArchived
restoreActiveSession_RestoresArchived(st, goals, time) ==
    LET saved == st.activeSession
        i == IF saved = Null THEN 0
             ELSE FindIndex(goals, LAMBDA g : g.id = saved.goalId)
    IN IF saved = Null THEN [storage |-> st, goals |-> goals]
       ELSE IF i = 0
       THEN [storage |-> [st EXCEPT !.activeSession = Null], goals |-> goals]
       ELSE LET restored == [goals EXCEPT ![i].isActive = TRUE,
                                          ![i].startTime = saved.startTime,
                                          ![i].lastModified = time]
            IN [storage |-> [st EXCEPT !.goals = restored], goals |-> restored]

\* restoreActiveSession() on the loaded goals and the stores
restoreActiveSession(st, goals, time) ==
    LET saved == st.activeSession
        i == IF saved = Null THEN 0
             ELSE FindIndex(goals, LAMBDA g : g.id = saved.goalId)
    IN IF saved = Null THEN [storage |-> st, goals |-> goals]
       ELSE IF i = 0 \/ goals[i].isArchived
       THEN [storage |-> [st EXCEPT !.activeSession = Null], goals |-> goals]
       ELSE LET restored == [goals EXCEPT ![i].isActive = TRUE,
                                          ![i].startTime = saved.startTime,
                                          ![i].lastModified = time]
            IN [storage |-> [st EXCEPT !.goals = restored], goals |-> restored]

\* the constructor on the stores a page left: the loads,
\* restoreActiveSession() and evaluateAchievements(true)
constructor(st, time) ==
    LET loaded == [i \in 1..Len(st.goals) |-> sanitizeGoal(st.goals[i])]
        restored == restoreActiveSession(st, loaded, time)
        records == evaluateAchievements(restored.goals, st.achievements, TRUE, time)
    IN [storage |-> [restored.storage EXCEPT !.achievements = records],
        app |-> [goals |-> restored.goals, achievements |-> records]]

(***************************************************************************)
(* One device from its first start: the store is empty, the user works on  *)
(* the goal cards, hides and reloads the page, and a peer sends its        *)
(* snapshot.  The clocks of the two devices agree: what the peer exported  *)
(* is older than every step of this device.                                *)
(***************************************************************************)
\* the goal of the peer: running since 1 with a quarter of an hour spent
PeerGoal == Goal("g1", 1, RemoteInstanceId, MsPerHour \div 4, TRUE)

\* the stores of the peer; its second session has the id of the session
\* this device makes when time is added at 4 to a goal made at 3, with
\* other fields
PeerStores ==
    [Stores(<<PeerGoal>>, 1, FALSE) EXCEPT
        !.sessions = @ \o <<[ManualSession(LocalGoalIds[1], 1, 4) EXCEPT
                                !.startTime = 1, !.endTime = 2,
                                !.instanceId = RemoteInstanceId]>>,
        !.activeSession = [goalId |-> "g1", startTime |-> 1, lastUpdated |-> 2]]

InitLocal ==
    /\ now = 3
    /\ ValidateIdle
    /\ local = Null
    /\ results = <<>>
    /\ remote = Exported(PeerStores, 1)
    /\ storage = Stores(<<>>, 1, FALSE)
    /\ app = [goals |-> <<>>, achievements |-> <<>>]
    /\ last = NoOperation

\* a handler takes one reading of the clock, which then advances
Tick ==
    /\ now < 3 + MaxSteps
    /\ now' = now + 1

\* the stores and the fields a handler other than the merging ones leaves
Leaves(after, op) ==
    /\ storage' = after.storage
    /\ app' = after.app
    /\ last' = Done(op)
    /\ UNCHANGED <<local, remote, results, data, verdict>>

\* the add-goal form is submitted
AddGoal ==
    /\ Tick
    /\ FreshGoalIndex(storage, app) # 0
    /\ Leaves(addGoal(storage, app, 1, now), "add")

\* the buttons of the card of a goal that is not archived
StartGoal ==
    /\ Tick
    /\ \E i \in 1..Len(app.goals) :
          /\ ~app.goals[i].isArchived
          /\ Leaves(startGoal(storage, app, app.goals[i].id, now), "start")

StopGoal ==
    /\ Tick
    /\ \E i \in 1..Len(app.goals) : ~app.goals[i].isArchived
    /\ Leaves(stopGoal(storage, app, now), "stop")

ManualTimeSubmit ==
    /\ Tick
    /\ \E i \in 1..Len(app.goals) :
          /\ ~app.goals[i].isArchived
          /\ Leaves(handleManualTimeSubmit(storage, app, app.goals[i].id,
                                           hoursToMilliseconds(1) \div 4, now),
                    "addTime")

ArchiveGoal ==
    /\ Tick
    /\ \E i \in 1..Len(app.goals) :
          /\ ~app.goals[i].isArchived
          /\ Leaves(archiveGoal(storage, app, app.goals[i].id, now), "archive")

\* the restore button of the card of an archived goal
RestoreGoal ==
    /\ Tick
    /\ \E i \in 1..Len(app.goals) :
          /\ app.goals[i].isArchived
          /\ Leaves(restoreGoal(storage, app, app.goals[i].id, now), "restore")

\* the delete dialog of a card is confirmed
ConfirmDelete ==
    /\ Tick
    /\ \E i \in 1..Len(app.goals) : deleteGoal(i)
    /\ UNCHANGED <<local, remote, results, data, verdict>>

\* the page is hidden
Hide ==
    /\ Tick
    /\ Leaves(setupPersistence(storage, app, now), "hide")

\* the branch restoreActiveSession() takes on the stores st
RestoreBranch(st) ==
    LET saved == st.activeSession
        i == IF saved = Null THEN 0
             ELSE FindIndex(st.goals, LAMBDA g : g.id = saved.goalId)
    IN IF saved = Null THEN "none"
       ELSE IF i = 0 \/ st.goals[i].isArchived THEN "cleared"
       ELSE "restored"

\* the page is closed and opened again
Reload ==
    /\ Tick
    /\ LET left == setupPersistence(storage, app, now).storage
           after == constructor(left, now)
       IN /\ storage' = after.storage
          /\ app' = after.app
          /\ last' = [Done("reload") EXCEPT !.status = RestoreBranch(left)]
    /\ UNCHANGED <<local, remote, results, data, verdict>>

\* the snapshot of the peer arrives on the data channel
PeerSync ==
    /\ Tick
    /\ Len(results) < MaxRuns
    /\ handleP2PSync(remote, {0})
    /\ results' = Append(results, [at |-> now, by |-> LocalInstanceId,
                                   out |-> last'.merged])
    /\ UNCHANGED <<local, remote, data, verdict>>

NextLocal ==
    \/ AddGoal
    \/ StartGoal
    \/ StopGoal
    \/ ManualTimeSubmit
    \/ ArchiveGoal
    \/ RestoreGoal
    \/ ConfirmDelete
    \/ Hide
    \/ Reload
    \/ PeerSync

SpecLocal == InitLocal /\ [][NextLocal]_vars

(***************************************************************************)
(* time.ts: calculateDailyStreak.  The device is in a time zone without    *)
(* daylight saving, so that a local day is MS_PER_DAY long; a date key     *)
(* 'YYYY-MM-DD' is held as the number of its day, which orders the keys as *)
(* the strings do.                                                         *)
(***************************************************************************)
MaxDay == 4       \* the sessions start on the days 0..MaxDay
MaxSessions == 4  \* most sessions handed to calculateDailyStreak

MS_PER_DAY == 86400000

startOfDay(timestamp) == (timestamp \div MS_PER_DAY) * MS_PER_DAY

formatDateKey(timestamp) == timestamp \div MS_PER_DAY

parseDateKey(key) == key * MS_PER_DAY

Min(a, b) == IF a < b THEN a ELSE b

Max(a, b) == IF a > b THEN a ELSE b

\* the while loop over the days of one session: the keys of the days from
\* cursor on that overlap the session
RECURSIVE OverlappedDayKeys(_, _, _)
OverlappedDayKeys(cursor, sessionStart, sessionEnd) ==
    IF cursor > startOfDay(sessionEnd) THEN {}
    ELSE LET overlapStart == Max(sessionStart, cursor)
             overlapEnd == Min(sessionEnd, cursor + MS_PER_DAY)
         IN (IF overlapEnd - overlapStart > 0 THEN {formatDateKey(cursor)} ELSE {})
            \cup OverlappedDayKeys(cursor + MS_PER_DAY, sessionStart, sessionEnd)

\* the body of sessions.forEach: the day keys one session adds
SessionDayKeys(session, time) ==
    LET sessionEnd == Min(session.endTime, time)
        sessionStart == Min(session.startTime, sessionEnd)
    IN IF sessionEnd <= sessionStart THEN {}
       ELSE OverlappedDayKeys(startOfDay(sessionStart), sessionStart, sessionEnd)

\* the keys sorted from the latest to the earliest
RECURSIVE SortDescending(_)
SortDescending(keys) ==
    IF keys = {} THEN <<>>
    ELSE LET latest == CHOOSE k \in keys : \A other \in keys : other <= k
         IN <<latest>> \o SortDescending(keys \ {latest})

\* the for loop: the days counted from index on while each is the day
\* before the previous one
RECURSIVE CountBack(_, _, _, _)
CountBack(filtered, index, previous, streak) ==
    IF index > Len(filtered) THEN streak
    ELSE LET current == parseDateKey(filtered[index]) IN
         IF previous - current = MS_PER_DAY
         THEN CountBack(filtered, index + 1, current, streak + 1)
         ELSE streak

calculateDailyStreak(sessions, time) ==
    IF sessions = <<>> THEN 0
    ELSE LET todayKey == formatDateKey(startOfDay(time))
             dayKeys == UNION {SessionDayKeys(sessions[i], time) :
                                  i \in DOMAIN sessions}
             filtered == SortDescending({key \in dayKeys : key <= todayKey})
         IN IF filtered = <<>> THEN 0
            ELSE CountBack(filtered, 2, parseDateKey(filtered[1]), 1)

\* a session of an hour in the morning of the day, and one of two hours
\* over the midnight that ends the day
DaySession(day) ==
    [startTime |-> day * MS_PER_DAY + MsPerHour,
     endTime |-> day * MS_PER_DAY + 2 * MsPerHour, duration |-> MsPerHour]

NightSession(day) ==
    [startTime |-> (day + 1) * MS_PER_DAY - MsPerHour,
     endTime |-> (day + 1) * MS_PER_DAY + MsPerHour, duration |-> 2 * MsPerHour]

LoggedSessions == {DaySession(day) : day \in 0..MaxDay}
                      \cup {NightSession(day) : day \in 0..MaxDay}

\* the sessions of a set, in the order of the store (by the end of each)
RECURSIVE InOrder(_)
InOrder(sessions) ==
    IF sessions = {} THEN <<>>
    ELSE LET first == CHOOSE s \in sessions : \A o \in sessions : s.endTime <= o.endTime
         IN <<first>> \o InOrder(sessions \ {first})

\* the sessions of a goal card, and the time it is rendered at: noon of the
\* day after the last day, or noon of the last day
InitStreak ==
    /\ now \in {(MaxDay + 1) * MS_PER_DAY + 12 * MsPerHour,
                MaxDay * MS_PER_DAY + 12 * MsPerHour}
    /\ \E sessions \in SUBSET LoggedSessions :
          /\ Cardinality(sessions) <= MaxSessions
          /\ local = InOrder(sessions)
    /\ remote = Null
    /\ results = <<>>
    /\ ValidateIdle
    /\ AppIdle

\* renderGoals computes the streak of the card
CalculateDailyStreak ==
    /\ results = <<>>
    /\ results' = <<calculateDailyStreak(local, now)>>
    /\ UNCHANGED <<local, remote, now, data, verdict, storage, app, last>>

NextStreak == CalculateDailyStreak

SpecStreak == InitStreak /\ [][NextStreak]_vars

(***************************************************************************)
(* The add-time form: validateDailyLimit and the whole of                  *)
(* handleManualTimeSubmit, with the hours and the date of the form.        *)
(***************************************************************************)
MaxAdds == 3    \* submissions of the add-time form per behaviour

\* Date.prototype.toDateString: the local day of the time
toDateString(timestamp) == timestamp \div MS_PER_DAY

RECURSIVE TotalDuration(_)
\* sessions.reduce((total, session) => total + session.duration, 0)
TotalDuration(sessions) ==
    IF sessions = <<>> THEN 0
    ELSE Head(sessions).duration + TotalDuration(Tail(sessions))

\* validateDailyLimit that counts the sessions that start on the day only
validateDailyLimit_StartOnly(allSessions, newHours, targetDate) ==
    LET targetKey == toDateString(targetDate)
        sessionsForDay ==
            SelectSeq(allSessions,
                      LAMBDA session : toDateString(session.startTime) = targetKey)
        combined == TotalDuration(sessionsForDay) + hoursToMilliseconds(newHours)
    IN [ok |-> ~(combined > hoursToMilliseconds(24))]

\* the total of the day and the new hours, compared in milliseconds
validateDailyLimit(allSessions, newHours, targetDate) ==
    LET targetKey == toDateString(targetDate)
        sessionsForDay ==
            SelectSeq(allSessions,
                      LAMBDA session :
                          \/ toDateString(session.startTime) = targetKey
                          \/ toDateString(session.endTime) = targetKey)
        combined == TotalDuration(sessionsForDay) + hoursToMilliseconds(newHours)
    IN [ok |-> ~(combined > hoursToMilliseconds(24))]

\* handleManualTimeSubmit for the goal of the open form, the hours and the
\* date entered: what it leaves, and whether it added the time
submitManualTime(st, ap, addTimeGoalId, hours, targetDate, time) ==
    LET duration == hoursToMilliseconds(hours)
        session == [ManualSession(addTimeGoalId, duration, time) EXCEPT
                       !.startTime = targetDate - duration,
                       !.endTime = targetDate]
        i == FindIndex(ap.goals, LAMBDA g : g.id = addTimeGoalId)
        goals == IF i = 0 THEN ap.goals
                 ELSE [ap.goals EXCEPT ![i].totalTimeSpent = @ + duration,
                                       ![i].lastModified = time]
        records == evaluateAchievements(goals, ap.achievements, TRUE, time)
    IN IF ~(hours > 0)
       THEN [storage |-> st, app |-> ap, status |-> "ignored"]
       ELSE IF ~validateDailyLimit(st.sessions, hours, targetDate).ok
       THEN [storage |-> st, app |-> ap, status |-> "rejected"]
       ELSE [storage |-> [st EXCEPT !.sessions = Append(@, session),
                                    !.goals = IF i = 0 THEN @ ELSE goals,
                                    !.achievements = records],
             app |-> [goals |-> goals, achievements |-> records],
             status |-> "added"]

\* the hours entered in the form
FormHours == {0, 4, 10, 20}

\* the date of the form: none (the time of the submission) or the start of
\* a day
FormDates(time) == {time, startOfDay(time), startOfDay(time) - MS_PER_DAY}

\* a device with two goals and no session, at noon of day 2
InitLimit ==
    /\ now = 2 * MS_PER_DAY + 12 * MsPerHour
    /\ ValidateIdle
    /\ MergeIdle
    /\ LET goals == <<PlannedGoal(LocalGoalIds[1], 10, 0),
                      PlannedGoal(LocalGoalIds[2], 10, 0)>>
       IN /\ storage = Stores(goals, 1, FALSE)
          /\ app = [goals |-> goals, achievements |-> <<>>]
    /\ last = [op |-> "none", status |-> "none", goalId |-> "", hours |-> 0,
               targetDate |-> 0]

\* the add-time form of a goal is submitted
SubmitManualTime ==
    /\ now < 2 * MS_PER_DAY + 12 * MsPerHour + MaxAdds
    /\ now' = now + 1
    /\ \E i \in 1..Len(app.goals), hours \in FormHours, targetDate \in FormDates(now) :
          LET after == submitManualTime(storage, app, app.goals[i].id, hours,
                                        targetDate, now)
          IN /\ storage' = after.storage
             /\ app' = after.app
             /\ last' = [op |-> "addTime", status |-> after.status,
                         goalId |-> app.goals[i].id, hours |-> hours,
                         targetDate |-> targetDate]
    /\ UNCHANGED <<local, remote, results, data, verdict>>

NextLimit == SubmitManualTime

SpecLimit == InitLimit /\ [][NextLimit]_vars

(***************************************************************************)
(* The readers of the stores (storage.ts).  A stored item is absent, the   *)
(* empty text, a text JSON.parse throws on, or the text of a JSON value;   *)
(* the readers convert what they find with String, Number and Boolean.     *)
(***************************************************************************)
MaxItems == 2    \* elements of a stored array

DEFAULT_TOTAL_HOURS == 60

\* a number that is not finite
JsNaN == [t |-> "NaN"]

\* the stored items
NoItem == [present |-> FALSE, valid |-> FALSE, value |-> JsUndefined]
EmptyText == [present |-> TRUE, valid |-> FALSE, value |-> JsString("")]
BrokenText == [present |-> TRUE, valid |-> FALSE, value |-> JsString("{")]
TextOf(value) == [present |-> TRUE, valid |-> TRUE, value |-> value]

\* what a call returns; the catch of the reader returns on every throw
Returns(value) == [threw |-> FALSE, value |-> value]

\* !raw for what localStorage.getItem returns
NoText(item) == ~item.present \/ item = EmptyText

\* value?.name
OptProp(x, name) ==
    IF x.t \in {"undefined", "null"} THEN JsUndefined ELSE Prop(x, name)

\* x ?? d
Coalesce(x, d) == IF x.t \in {"undefined", "null"} THEN d ELSE x

\* the decimal text of the small numbers of the model
DigitText(n) ==
    IF n \in 0..9 THEN <<"0", "1", "2", "3", "4", "5", "6", "7", "8", "9">>[n + 1]
    ELSE "60"

\* Number(text) for the texts of the model: only "" and "5" read as numbers
TextToNumber(text) ==
    IF text = "" THEN JsNumber(0)
    ELSE IF text = "5" THEN JsNumber(5)
    ELSE JsNaN

\* Number(x)
NumberOf(x) ==
    IF x.t = "number" THEN x
    ELSE IF x.t = "string" THEN TextToNumber(x.v)
    ELSE IF x.t = "boolean" THEN JsNumber(IF x.v THEN 1 ELSE 0)
    ELSE IF x.t = "null" THEN JsNumber(0)
    ELSE IF x.t = "array" /\ x.v = <<>> THEN JsNumber(0)
    ELSE JsNaN

\* String(x)
StringOf(x) ==
    IF x.t = "string" THEN x.v
    ELSE IF x.t = "number" THEN DigitText(x.v)
    ELSE IF x.t = "boolean" THEN (IF x.v THEN "true" ELSE "false")
    ELSE IF x.t = "array" THEN (IF x.v = <<>> THEN "" ELSE "null")
    ELSE IF x.t = "object" THEN "[object Object]"
    ELSE x.t

\* Boolean(x)
BooleanOf(x) == ~Falsy(x)

\* typeof value === 'number' && Number.isFinite(value)
isNumber(x) == x.t = "number"

\* crypto.randomUUID() for the element at the index
RandomUUID(index) == <<"uuid-1", "uuid-2", "uuid-3">>[index]

\* sanitizeGoal on the element at the index of the stored array
sanitizeStoredGoal(raw, index, time) ==
    [id |-> StringOf(Coalesce(OptProp(raw, "id"), JsString(RandomUUID(index)))),
     title |-> StringOf(Coalesce(OptProp(raw, "title"), JsString("Untitled"))),
     totalHours |-> IF isNumber(NumberOf(OptProp(raw, "totalHours")))
                    THEN NumberOf(Prop(raw, "totalHours")).v
                    ELSE DEFAULT_TOTAL_HOURS,
     totalTimeSpent |-> IF isNumber(NumberOf(OptProp(raw, "totalTimeSpent")))
                        THEN NumberOf(Prop(raw, "totalTimeSpent")).v
                        ELSE 0,
     isActive |-> BooleanOf(OptProp(raw, "isActive")),
     isArchived |-> BooleanOf(OptProp(raw, "isArchived")),
     startTime |-> IF isNumber(OptProp(raw, "startTime"))
                   THEN Prop(raw, "startTime").v ELSE NoStartTime,
     createdAt |-> IF isNumber(OptProp(raw, "createdAt"))
                   THEN Prop(raw, "createdAt").v ELSE time,
     lastModified |-> IF isNumber(OptProp(raw, "lastModified"))
                      THEN Prop(raw, "lastModified").v ELSE time,
     instanceId |-> StringOf(Coalesce(OptProp(raw, "instanceId"),
                                      JsString("this-device")))]

\* loadGoals on the stored item
readGoals(item, time) ==
    IF NoText(item) THEN Returns(<<>>)
    ELSE IF ~item.valid THEN Returns(<<>>)
    ELSE IF ~IsArray(item.value) THEN Returns(<<>>)
    ELSE Returns([i \in DOMAIN item.value.v |-> sanitizeStoredGoal(item.value.v[i], i, time)])

\* the record loadSessions maps the element at the index to
MappedSession(value, index) ==
    [id |-> StringOf(Coalesce(OptProp(value, "id"), JsString(RandomUUID(index)))),
     goalId |-> StringOf(Coalesce(OptProp(value, "goalId"), JsString(""))),
     startTime |-> NumberOf(Coalesce(OptProp(value, "startTime"), JsNumber(0))),
     endTime |-> NumberOf(Coalesce(OptProp(value, "endTime"), JsNumber(0))),
     duration |-> NumberOf(Coalesce(OptProp(value, "duration"), JsNumber(0))),
     instanceId |-> StringOf(Coalesce(OptProp(value, "instanceId"),
                                      JsString("this-device")))]

\* loadSessions on the stored item
readSessions(item) ==
    IF NoText(item) THEN Returns(<<>>)
    ELSE IF ~item.valid THEN Returns(<<>>)
    ELSE IF ~IsArray(item.value) THEN Returns(<<>>)
    ELSE Returns(SelectSeq([i \in DOMAIN item.value.v |->
                               MappedSession(item.value.v[i], i)],
                           LAMBDA session :
                               /\ session.goalId # ""
                               /\ isNumber(session.startTime)
                               /\ isNumber(session.endTime)
                               /\ isNumber(session.duration)))

\* the record readAchievements maps the element to, or null
MappedAchievement(value, time) ==
    LET id == StringOf(Coalesce(OptProp(value, "id"), JsString("")))
        goalId == StringOf(Coalesce(OptProp(value, "goalId"), JsString("")))
        unlockedAtRaw == NumberOf(Coalesce(OptProp(value, "unlockedAt"),
                                           JsNumber(time)))
    IN IF id = "" \/ goalId = "" THEN JsNull
       ELSE [t |-> "record", id |-> id, goalId |-> goalId,
             unlockedAt |-> IF isNumber(unlockedAtRaw) THEN unlockedAtRaw.v
                            ELSE time,
             seen |-> BooleanOf(OptProp(value, "seen")),
             instanceId |-> StringOf(Coalesce(OptProp(value, "instanceId"),
                                              JsString("this-device")))]

\* loadAchievements on the stored item
readAchievements(item, time) ==
    IF NoText(item) THEN Returns(<<>>)
    ELSE IF ~item.valid THEN Returns(<<>>)
    ELSE IF ~IsArray(item.value) THEN Returns(<<>>)
    ELSE Returns(SelectSeq([i \in DOMAIN item.value.v |->
                               MappedAchievement(item.value.v[i], time)],
                           LAMBDA record : record.t = "record"))

\* getActiveSession on the stored item
readActiveSession(item) ==
    IF NoText(item) THEN Returns(JsNull)
    ELSE IF ~item.valid THEN Returns(JsNull)
    ELSE LET parsed == item.value
             goalId == StringOf(Coalesce(Prop(parsed, "goalId"), JsString("")))
             startTime == NumberOf(Coalesce(Prop(parsed, "startTime"), JsNumber(0)))
             lastUpdated == NumberOf(Coalesce(Prop(parsed, "lastUpdated"),
                                              JsNumber(0)))
         IN IF Falsy(parsed) \/ TypeOf(parsed) # "object" THEN Returns(JsNull)
            ELSE IF goalId = "" \/ ~isNumber(startTime) \/ ~isNumber(lastUpdated)
            THEN Returns(JsNull)
            ELSE Returns([t |-> "record", goalId |-> goalId,
                          startTime |-> startTime.v,
                          lastUpdated |-> lastUpdated.v])

\* the values JSON.parse gives that are no array
NoArrayValues ==
    {JsNull, JsNumber(1), JsString("x"), JsBoolean(TRUE), JsObject(<<>>)}

\* the properties an element of a stored array has or lacks
WithOrWithout(values) == values \cup {JsUndefined}

\* an object with the properties that are not undefined
ObjectOf(props) ==
    JsObject([name \in {n \in DOMAIN props : props[n] # JsUndefined} |-> props[name]])

StoredGoalElements ==
    {JsNull, JsString("x")} \cup
    {ObjectOf(props) :
        props \in [id : WithOrWithout({JsString("g1")}),
                   totalHours : WithOrWithout({JsNumber(5), JsString("5"),
                                               JsString("abc"), JsNull}),
                   startTime : WithOrWithout({JsNumber(1), JsString("5")})]}

StoredSessionElements ==
    {JsNull, JsString("x")} \cup
    {ObjectOf(props) :
        props \in [goalId : WithOrWithout({JsString("g1"), JsString("")}),
                   startTime : WithOrWithout({JsNumber(1), JsString("abc")}),
                   endTime : WithOrWithout({JsNumber(2)}),
                   duration : WithOrWithout({JsNumber(1)})]}

StoredAchievementElements ==
    {JsNull, JsString("x")} \cup
    {ObjectOf(props) :
        props \in [id : WithOrWithout({JsString("a1")}),
                   goalId : WithOrWithout({JsString("g1")}),
                   unlockedAt : WithOrWithout({JsNumber(1), JsString("abc")}),
                   seen : WithOrWithout({JsBoolean(TRUE)})]}

StoredActiveSessions ==
    {JsArray(<<>>)} \cup
    {ObjectOf(props) :
        props \in [goalId : WithOrWithout({JsString("g1"), JsString("")}),
                   startTime : WithOrWithout({JsNumber(1), JsString("abc"), JsNull}),
                   lastUpdated : WithOrWithout({JsNumber(2)})]}

\* the arrays of at most MaxItems of the elements
ArraysOf(elements) ==
    {JsArray(xs) : xs \in UNION {[1..k -> elements] : k \in 0..MaxItems}}

\* the items a key of the store can hold
StoredItems(key) ==
    {NoItem, EmptyText, BrokenText} \cup {TextOf(value) : value \in NoArrayValues}
    \cup {TextOf(value) :
            value \in IF key = "goals" THEN ArraysOf(StoredGoalElements)
                      ELSE IF key = "sessions" THEN ArraysOf(StoredSessionElements)
                      ELSE IF key = "achievements"
                      THEN ArraysOf(StoredAchievementElements)
                      ELSE StoredActiveSessions}

InitStorage ==
    /\ now = 3
    /\ MergeIdle
    /\ AppIdle
    /\ verdict = NotRun
    /\ \E key \in {"goals", "sessions", "achievements", "activeSession"} :
          \E item \in StoredItems(key) : data = [key |-> key, item |-> item]

LoadGoals ==
    /\ results = <<>>
    /\ data.key = "goals"
    /\ results' = <<readGoals(data.item, now)>>
    /\ UNCHANGED <<local, remote, now, data, verdict, storage, app, last>>

LoadSessions ==
    /\ results = <<>>
    /\ data.key = "sessions"
    /\ results' = <<readSessions(data.item)>>
    /\ UNCHANGED <<local, remote, now, data, verdict, storage, app, last>>

LoadAchievements ==
    /\ results = <<>>
    /\ data.key = "achievements"
    /\ results' = <<readAchievements(data.item, now)>>
    /\ UNCHANGED <<local, remote, now, data, verdict, storage, app, last>>

GetActiveSession ==
    /\ results = <<>>
    /\ data.key = "activeSession"
    /\ results' = <<readActiveSession(data.item)>>
    /\ UNCHANGED <<local, remote, now, data, verdict, storage, app, last>>

NextStorage ==
    \/ LoadGoals
    \/ LoadSessions
    \/ LoadAchievements
    \/ GetActiveSession

SpecStorage == InitStorage /\ [][NextStorage]_vars

(***************************************************************************)
(* The text of an achievement id (achievements.ts).  A text is a sequence  *)
(* of characters; "G" and "P" stand for the runs of letters "goal" and     *)
(* "progress", which no step looks into.                                   *)
(***************************************************************************)
MaxIdLen == 3    \* characters of a goal id

GOAL_PREFIX == <<"G", ":">>
PROGRESS_SEGMENT == <<":", "P", ":">>

\* the characters of the goal ids
IdChars == {"g", "P", ":", "%", "3", "A", "2", "5"}

DigitChars == <<"0", "1", "2", "3", "4", "5", "6", "7", "8", "9">>

RECURSIVE NumberToText(_)
\* `${percent}` of a whole number that is not negative
NumberToText(n) ==
    IF n < 10 THEN <<DigitChars[n + 1]>>
    ELSE NumberToText(n \div 10) \o <<DigitChars[(n % 10) + 1]>>

\* the value of a digit
DigitValue(char) == CHOOSE d \in 0..9 : DigitChars[d + 1] = char

RECURSIVE TextValue(_, _)
TextValue(text, value) ==
    IF text = <<>> THEN value
    ELSE TextValue(Tail(text), 10 * value + DigitValue(Head(text)))

\* a number that is not finite
NotFinite == -1

\* Number(text): 0 for the empty text, the value of a text of digits, and
\* no finite number for the other texts of the model
TextAsNumber(text) ==
    IF \A i \in DOMAIN text : \E d \in DOMAIN DigitChars : DigitChars[d] = text[i]
    THEN TextValue(text, 0)
    ELSE NotFinite

RECURSIVE encodeURIComponent(_)
\* the characters other than letters and digits are escaped
encodeURIComponent(text) ==
    IF text = <<>> THEN <<>>
    ELSE (IF Head(text) = ":" THEN <<"%", "3", "A">>
          ELSE IF Head(text) = "%" THEN <<"%", "2", "5">>
          ELSE <<Head(text)>>) \o encodeURIComponent(Tail(text))

\* decodeURIComponent throws
URIError == <<"URIError">>

\* the character of an escape, "URIError" for an escape decodeURIComponent
\* throws on; "?" is a character outside the ids
Unescaped(high, low) ==
    IF high = "3" /\ low = "A" THEN ":"
    ELSE IF high = "2" /\ low = "5" THEN "%"
    ELSE IF high \in {"2", "3", "5"} /\ low \in {"2", "3", "5", "A"} THEN "?"
    ELSE "URIError"

RECURSIVE decodeURIComponent(_)
\* the decoded text, or URIError
decodeURIComponent(text) ==
    IF text = <<>> THEN <<>>
    ELSE IF Head(text) # "%"
    THEN LET rest == decodeURIComponent(Tail(text))
         IN IF rest = URIError THEN URIError ELSE <<Head(text)>> \o rest
    ELSE IF Len(text) < 3 THEN URIError
    ELSE LET char == Unescaped(text[2], text[3])
             rest == decodeURIComponent(SubSeq(text, 4, Len(text)))
         IN IF char = "URIError" \/ rest = URIError THEN URIError
            ELSE <<char>> \o rest

\* text.startsWith(prefix)
StartsWith(text, prefix) ==
    Len(text) >= Len(prefix) /\ SubSeq(text, 1, Len(prefix)) = prefix

\* text.lastIndexOf(part), from 0, -1 where there is none
LastIndexOf(text, part) ==
    LET found == {i \in 0..(Len(text) - Len(part)) :
                     SubSeq(text, i + 1, i + Len(part)) = part}
    IN IF found = {} THEN -1
       ELSE CHOOSE i \in found : \A j \in found : j <= i

\* encodeGoalProgressId with the goal id as it is
encodeGoalProgressIdText_Unescaped(goalId, percent) ==
    GOAL_PREFIX \o goalId \o PROGRESS_SEGMENT \o NumberToText(percent)

\* encodeGoalProgressId as a text
encodeGoalProgressIdText(goalId, percent) ==
    GOAL_PREFIX \o encodeURIComponent(goalId) \o PROGRESS_SEGMENT
        \o NumberToText(percent)

\* decodeGoalProgressId of a text
decodeGoalProgressIdText(id) ==
    LET progressIndex == LastIndexOf(id, PROGRESS_SEGMENT)
        encodedGoalId == SubSeq(id, Len(GOAL_PREFIX) + 1, progressIndex)
        percentText == SubSeq(id, progressIndex + Len(PROGRESS_SEGMENT) + 1, Len(id))
        percent == TextAsNumber(percentText)
        goalId == decodeURIComponent(encodedGoalId)
    IN IF ~StartsWith(id, GOAL_PREFIX) THEN Null
       ELSE IF progressIndex = -1 THEN Null
       ELSE IF percent = NotFinite THEN Null
       ELSE IF goalId = URIError THEN Null
       ELSE [goalId |-> goalId, percent |-> percent]

\* createGoalProgressDefinition with the id as a text
createGoalProgressDefinitionText(goal, percent) ==
    [id |-> encodeGoalProgressIdText(goal.id, percent), goalId |-> goal.id,
     threshold |-> percent]

\* resolveAchievementDefinition with the id as a text
resolveAchievementDefinitionText(id, goals) ==
    LET decoded == decodeGoalProgressIdText(id)
        i == IF decoded = Null THEN 0
             ELSE FindIndex(goals, LAMBDA item : item.id = decoded.goalId)
    IN IF decoded = Null THEN Null
       ELSE IF i # 0 THEN createGoalProgressDefinitionText(goals[i], decoded.percent)
       ELSE [id |-> id, goalId |-> decoded.goalId, threshold |-> decoded.percent]

\* the goal ids: the texts of at most MaxIdLen characters
TextGoalIds == UNION {[1..k -> IdChars] : k \in 0..MaxIdLen}

\* the thresholds and two other percents
Percents == {0, 7, 25, 50, 75, 100}

\* a goal id, a percent, and a list of goals with or without the goal
InitIds ==
    /\ now = 0
    /\ MergeIdle
    /\ AppIdle
    /\ verdict = NotRun
    /\ \E goalId \in TextGoalIds, percent \in Percents, known \in BOOLEAN :
          data = [goalId |-> goalId, percent |-> percent,
                  goals |-> IF known THEN <<[id |-> <<"g">>], [id |-> goalId]>>
                            ELSE <<[id |-> <<"g", "g", "g", "g">>]>>]

\* the id of the achievement is built and then resolved
ResolveId ==
    /\ results = <<>>
    /\ LET id == encodeGoalProgressIdText(data.goalId, data.percent)
       IN results' = <<[id |-> id,
                        decoded |-> decodeGoalProgressIdText(id),
                        definition |-> resolveAchievementDefinitionText(id, data.goals)]>>
    /\ UNCHANGED <<local, remote, now, data, verdict, storage, app, last>>

NextIds == ResolveId

SpecIds == InitIds /\ [][NextIds]_vars

(***************************************************************************)
(* startGoal called with any id: the id of a goal of the list, running,    *)
(* archived or neither, or an id that no goal has.                         *)
(***************************************************************************)
\* the ids startGoal is called with
CalledGoalIds == {LocalGoalIds[1], LocalGoalIds[2], "g9"}

\* a call of startGoal(goalId)
StartGoalCall ==
    /\ Tick
    /\ \E goalId \in CalledGoalIds :
          LET after == startGoal(storage, app, goalId, now)
          IN /\ storage' = after.storage
             /\ app' = after.app
             /\ last' = [Done("startGoal") EXCEPT !.status = goalId]
    /\ UNCHANGED <<local, remote, results, data, verdict>>

NextStart ==
    \/ AddGoal
    \/ ArchiveGoal
    \/ StartGoalCall

SpecStart == InitLocal /\ [][NextStart]_vars

(***************************************************************************)
(* The operations of the cards and forms of one device, without a peer and *)
(* without a reload, from the empty store.                                 *)
(***************************************************************************)
NextTimer ==
    \/ AddGoal
    \/ StartGoal
    \/ StopGoal
    \/ ManualTimeSubmit
    \/ ArchiveGoal
    \/ RestoreGoal

SpecTimer == InitLocal /\ [][NextTimer]_vars

(***************************************************************************)
(* Two peers that merge each other's snapshot: each runs merge with its    *)
(* own snapshot as local and the snapshot of the other as remote.          *)
(***************************************************************************)
InitPeers ==
    /\ now = 0
    /\ results = <<>>
    /\ ValidateIdle
    /\ AppIdle
    /\ \E lg, rg \in GoalArrays :
          /\ local = [BaseLocal EXCEPT !.goals = lg]
          /\ remote = [BaseRemote EXCEPT !.goals = rg]

\* the two calls of merge, one on each peer
MergeOnBothPeers ==
    /\ results = <<>>
    /\ results' = <<[at |-> now, by |-> LocalInstanceId,
                     out |-> merge([instanceId |-> LocalInstanceId], local, remote)],
                    [at |-> now, by |-> RemoteInstanceId,
                     out |-> merge([instanceId |-> RemoteInstanceId], remote, local)]>>
    /\ now' = now + 1
    /\ UNCHANGED <<local, remote, data, verdict, storage, app, last>>

NextPeers == MergeOnBothPeers

SpecPeers == InitPeers /\ [][NextPeers]_vars

(***************************************************************************)
(* Two peers A and B with an open data channel: Sync Now on one of them    *)
(* and the message handler of the data channel on the other.  local holds  *)
(* the stores of A and remote the stores of B; data holds, for each peer,  *)
(* the messages sent to it that have not arrived.                          *)
(***************************************************************************)
MaxSyncs == 2    \* clicks on Sync Now per behaviour

Peers == {"A", "B"}

OtherPeer(p) == IF p = "A" THEN "B" ELSE "A"

\* the instance id of the SyncManager of the peer
PeerManager(p) ==
    [instanceId |-> IF p = "A" THEN LocalInstanceId ELSE RemoteInstanceId]

\* requestSync(localData): the message put on the data channel
SyncRequest(localData, time) ==
    [type |-> "sync-request", data |-> localData, timestamp |-> time]

\* handleSyncMessage: every type of message goes to onSyncReceived and so to
\* handleP2PSync, which saves the merge of the stores and the data received
ReceivedBy(p, stores, message) ==
    LET localData == createSyncData(PeerManager(p), stores.goals, stores.sessions,
                                    stores.achievements, stores.activeSession)
        mergeResult == merge(PeerManager(p), localData, message.data)
    IN [goals |-> mergeResult.goals, sessions |-> mergeResult.sessions,
        achievements |-> mergeResult.achievements,
        activeSession |-> mergeResult.activeSession]

\* the two peers with at most one goal each, connected, nothing sent
InitExchange ==
    /\ now = 0
    /\ results = <<>>
    /\ verdict = NotRun
    /\ storage = Null
    /\ app = Null
    /\ \E lg, rg \in UniqueIdArrays(Goals, 1) :
          /\ local = [BaseLocal EXCEPT !.goals = lg]
          /\ remote = [BaseRemote EXCEPT !.goals = rg]
    /\ data = [p \in Peers |-> <<>>]
    /\ last = [requested |-> [p \in Peers |-> 0], received |-> [p \in Peers |-> 0]]

\* syncP2PNow() on a peer
SyncP2PNow ==
    /\ last.requested["A"] + last.requested["B"] < MaxSyncs
    /\ \E p \in Peers :
          LET stores == IF p = "A" THEN local ELSE remote
              localData == createSyncData(PeerManager(p), stores.goals,
                                          stores.sessions, stores.achievements,
                                          stores.activeSession)
          IN /\ data' = [data EXCEPT ![OtherPeer(p)] =
                                        Append(@, SyncRequest(localData, now))]
             /\ last' = [last EXCEPT !.requested[p] = @ + 1]
    /\ now' = now + 1
    /\ UNCHANGED <<local, remote, results, verdict, storage, app>>

\* dataChannel.onmessage on a peer
OnMessage ==
    /\ \E p \in Peers :
          /\ data[p] # <<>>
          /\ data' = [data EXCEPT ![p] = Tail(@)]
          /\ last' = [last EXCEPT !.received[p] = @ + 1]
          /\ IF p = "A"
             THEN /\ local' = ReceivedBy(p, local, Head(data[p]))
                  /\ remote' = remote
             ELSE /\ remote' = ReceivedBy(p, remote, Head(data[p]))
                  /\ local' = local
    /\ now' = now + 1
    /\ UNCHANGED <<results, verdict, storage, app>>

NextExchange ==
    \/ SyncP2PNow
    \/ OnMessage

SpecExchange == InitExchange /\ [][NextExchange]_vars

(***************************************************************************)
(* WebRTCManager: the connection attempts of one peer.  app holds the      *)
(* fields of the manager; a peer connection and a data channel are named   *)
(* by the number of the attempt that made them, 0 is null.  data holds the *)
(* data channels whose close event is queued and the ones it has fired on. *)
(* The browser delivers a queued event at any later time.                  *)
(***************************************************************************)
MaxAttempts == 3    \* calls of createOffer and createAnswer per behaviour

\* the constructor: updateState('disconnected')
InitRtc ==
    /\ now = 0
    /\ MergeIdle
    /\ verdict = NotRun
    /\ storage = Null
    /\ app = [connectionState |-> "disconnected", role |-> "none", pc |-> 0,
              dataChannel |-> 0, attempts |-> 0]
    /\ data = [queued |-> {}, closed |-> {}]
    /\ last = [op |-> "none", channel |-> 0]

\* dataChannel.close(): the close event of a channel that has not fired it
\* is queued
Closing(events, channel) ==
    IF channel = 0 \/ channel \in events.closed THEN events
    ELSE [events EXCEPT !.queued = @ \cup {channel}]

\* cleanup(): the fields of the manager after it
cleanup(manager) ==
    [manager EXCEPT !.dataChannel = 0, !.pc = 0, !.role = "none"]

\* createOffer() up to its first await
CreateOffer ==
    /\ app.attempts < MaxAttempts
    /\ app' = [cleanup(app) EXCEPT
                  !.role = "initiator", !.connectionState = "connecting",
                  !.attempts = app.attempts + 1, !.pc = app.attempts + 1,
                  !.dataChannel = app.attempts + 1]
    /\ data' = Closing(data, app.dataChannel)
    /\ last' = [op |-> "createOffer", channel |-> 0]
    /\ UNCHANGED <<local, remote, now, results, verdict, storage>>

\* createAnswer(offerCode) up to its first await
CreateAnswer ==
    /\ app.attempts < MaxAttempts
    /\ app' = [cleanup(app) EXCEPT
                  !.role = "responder", !.connectionState = "connecting",
                  !.attempts = app.attempts + 1, !.pc = app.attempts + 1]
    /\ data' = Closing(data, app.dataChannel)
    /\ last' = [op |-> "createAnswer", channel |-> 0]
    /\ UNCHANGED <<local, remote, now, results, verdict, storage>>

\* the catch of createOffer, createAnswer and applyAnswer: handleError
AttemptFails ==
    /\ app.pc # 0
    /\ app.connectionState = "connecting"
    /\ app' = [app EXCEPT !.connectionState = "failed"]
    /\ last' = [op |-> "error", channel |-> 0]
    /\ UNCHANGED <<local, remote, now, results, data, verdict, storage>>

\* pc.ondatachannel on the responder
OnDataChannel ==
    /\ app.pc # 0
    /\ app.role = "responder"
    /\ app.dataChannel = 0
    /\ app' = [app EXCEPT !.dataChannel = app.pc]
    /\ last' = [op |-> "datachannel", channel |-> app.pc]
    /\ UNCHANGED <<local, remote, now, results, data, verdict, storage>>

\* dataChannel.onopen of the channel of the manager
OnOpen ==
    /\ app.dataChannel # 0
    /\ app.dataChannel \notin data.queued \cup data.closed
    /\ app.connectionState = "connecting"
    /\ app' = [app EXCEPT !.connectionState = "connected"]
    /\ last' = [op |-> "open", channel |-> app.dataChannel]
    /\ UNCHANGED <<local, remote, now, results, data, verdict, storage>>

\* the other peer closes the channel of the manager
RemoteCloses ==
    /\ app.dataChannel # 0
    /\ app.connectionState = "connected"
    /\ app.dataChannel \notin data.queued \cup data.closed
    /\ data' = Closing(data, app.dataChannel)
    /\ last' = [op |-> "remoteClose", channel |-> app.dataChannel]
    /\ UNCHANGED <<local, remote, now, results, verdict, storage, app>>

\* dataChannel.onclose of a channel whose close event is queued
OnClose ==
    /\ \E channel \in data.queued :
          /\ data' = [queued |-> data.queued \ {channel},
                      closed |-> data.closed \cup {channel}]
          /\ last' = [op |-> "close", channel |-> channel]
    /\ app' = [app EXCEPT !.connectionState = "disconnected"]
    /\ UNCHANGED <<local, remote, now, results, verdict, storage>>

\* pc.oniceconnectionstatechange of the peer connection of the manager
OnIceConnectionStateChange ==
    /\ app.pc # 0
    /\ \E state \in {"connected", "failed", "disconnected"} :
          app' = [app EXCEPT !.connectionState = state]
    /\ last' = [op |-> "ice", channel |-> 0]
    /\ UNCHANGED <<local, remote, now, results, data, verdict, storage>>

\* disconnect()
Disconnect ==
    /\ app.pc # 0
    /\ app' = [cleanup(app) EXCEPT !.connectionState = "disconnected"]
    /\ data' = Closing(data, app.dataChannel)
    /\ last' = [op |-> "disconnect", channel |-> 0]
    /\ UNCHANGED <<local, remote, now, results, verdict, storage>>

NextRtc ==
    \/ CreateOffer
    \/ CreateAnswer
    \/ AttemptFails
    \/ OnDataChannel
    \/ OnOpen
    \/ RemoteCloses
    \/ OnClose
    \/ OnIceConnectionStateChange
    \/ Disconnect

SpecRtc == InitRtc /\ [][NextRtc]_vars

(***************************************************************************)
(* Vocabulary of the properties.                                           *)
(***************************************************************************)
Range(xs) == {xs[i] : i \in DOMAIN xs}

Ids(xs) == {xs[i].id : i \in DOMAIN xs}

\* the elements of xs with the given id
WithId(xs, id) == {i \in DOMAIN xs : xs[i].id = id}

\* the results of the merge calls made so far
Outs == {results[n].out : n \in DOMAIN results}

\* a is lexicographically greater than b: they agree up to a position where
\* a has the greater code unit or b has ended
LexGreater(a, b) ==
    \E k \in 1..Len(a) :
        /\ \A j \in 1..(k - 1) : j <= Len(b) /\ a[j] = b[j]
        /\ (k > Len(b) \/ a[k] > b[k])

\* the goals of the two snapshots that have the same id
SharedGoals ==
    {<<l, r>> \in Range(local.goals) \X Range(remote.goals) : l.id = r.id}

(***************************************************************************)
(* C1: of a goal held by both snapshots with different lastModified, the   *)
(* merged goals hold exactly one goal with its id, the version with the    *)
(* greater lastModified.                                                   *)
(***************************************************************************)
C1_GoalLastWriteWins ==
    \A out \in Outs : \A p \in SharedGoals :
        p[1].lastModified # p[2].lastModified =>
            LET newer == IF p[2].lastModified > p[1].lastModified
                         THEN p[2] ELSE p[1]
            IN /\ Cardinality(WithId(out.goals, newer.id)) = 1
               /\ newer \in Range(out.goals)

\* a merge took the newer remote version of one goal and kept the newer
\* local version of another
C1_Witness ==
    \E out \in Outs : \E p, q \in SharedGoals :
        /\ p[2].lastModified > p[1].lastModified
        /\ p[2] \in Range(out.goals) /\ p[1] \notin Range(out.goals)
        /\ q[2].lastModified < q[1].lastModified
        /\ q[1] \in Range(out.goals) /\ q[2] \notin Range(out.goals)

(***************************************************************************)
(* C2: of a goal held by both snapshots with equal lastModified, the       *)
(* merged goals hold the remote version if the remote instanceId is        *)
(* lexicographically greater than the local one and the local version      *)
(* otherwise; with the two instanceId values swapped the other side wins.  *)
(***************************************************************************)
\* the side whose version of the goal with this id the merge of l and r keeps
Winner(l, r) ==
    LET out == mergeGoals(<<l>>, <<r>>, <<>>).goals
    IN IF out = <<r>> /\ out # <<l>> THEN "remote"
       ELSE IF out = <<l>> THEN "local" ELSE "neither"

C2_TieBreakByInstanceId ==
    \A out \in Outs : \A p \in SharedGoals :
        p[1].lastModified = p[2].lastModified =>
            /\ Cardinality(WithId(out.goals, p[1].id)) = 1
            /\ IF LexGreater(p[2].instanceId, p[1].instanceId)
               THEN p[2] \in Range(out.goals)
               ELSE p[1] \in Range(out.goals)
            /\ p[1].instanceId # p[2].instanceId =>
                  LET l == [p[1] EXCEPT !.instanceId = p[2].instanceId]
                      r == [p[2] EXCEPT !.instanceId = p[1].instanceId]
                  IN /\ Winner(p[1], p[2]) \in {"local", "remote"}
                     /\ Winner(l, r) \in {"local", "remote"}
                     /\ Winner(l, r) # Winner(p[1], p[2])

\* a tie in which the remote instance id "b" beat the local "ab", and a tie
\* of two versions with one instance id, in which the local version stayed
C2_Witness ==
    \E out \in Outs : \E p, q \in SharedGoals :
        /\ p[1].lastModified = p[2].lastModified
        /\ p[1].instanceId = <<1, 2>> /\ p[2].instanceId = <<2>>
        /\ p[2] \in Range(out.goals) /\ p[1] \notin Range(out.goals)
        /\ q[1].lastModified = q[2].lastModified
        /\ q[1].instanceId = q[2].instanceId
        /\ q[1] # q[2]
        /\ q[1] \in Range(out.goals) /\ q[2] \notin Range(out.goals)

(***************************************************************************)
(* C3: a goal whose id is in one snapshot only is in the merged goals as   *)
(* it was and has no conflict entry; the ids of the merged goals are the   *)
(* ids of the two snapshots together.                                      *)
(***************************************************************************)
C3_ExclusiveGoalsKept ==
    \A out \in Outs :
        /\ \A g \in Range(local.goals) :
              g.id \notin Ids(remote.goals) =>
                  /\ g \in Range(out.goals)
                  /\ Cardinality(WithId(out.goals, g.id)) = 1
                  /\ g.id \notin Ids(out.conflicts)
        /\ \A g \in Range(remote.goals) :
              g.id \notin Ids(local.goals) =>
                  /\ g \in Range(out.goals)
                  /\ Cardinality(WithId(out.goals, g.id)) = 1
                  /\ g.id \notin Ids(out.conflicts)
        /\ Ids(out.goals) = Ids(local.goals) \cup Ids(remote.goals)

\* a merge of a snapshot without g1 (deleted locally) with one that holds
\* g1, and of a local goal the remote does not hold
C3_Witness ==
    \E out \in Outs :
        /\ "g1" \notin Ids(local.goals) /\ "g1" \in Ids(remote.goals)
        /\ "g2" \in Ids(local.goals) /\ "g2" \notin Ids(remote.goals)
        /\ Ids(out.goals) = {"g1", "g2"}
        /\ out.conflicts = <<>>

(***************************************************************************)
(* C4: the conflicts of a merge are one entry per goal id held by both     *)
(* snapshots, each of type 'goal' with resolution 'local' or 'remote', the *)
(* resolution naming the side whose version is in the merged goals; there  *)
(* is no entry for a session, an achievement or the active session.        *)
(***************************************************************************)
C4_ConflictPerSharedGoal ==
    \A out \in Outs :
        /\ Len(out.conflicts) = Cardinality(Ids(local.goals) \cap Ids(remote.goals))
        /\ \A id \in Ids(local.goals) \cap Ids(remote.goals) :
              Cardinality(WithId(out.conflicts, id)) = 1
        /\ \A c \in Range(out.conflicts) :
              /\ c.type = "goal"
              /\ c.id \in Ids(local.goals) \cap Ids(remote.goals)
              /\ c.local \in Range(local.goals) /\ c.local.id = c.id
              /\ c.remote \in Range(remote.goals) /\ c.remote.id = c.id
              /\ c.resolution \in {"local", "remote"}
              /\ c.resolution = "local" => c.local \in Range(out.goals)
              /\ c.resolution = "remote" => c.remote \in Range(out.goals)

\* two goal conflicts, one resolved to each side, in a merge whose sessions,
\* achievements and active sessions disagree as well
C4_Witness ==
    \E out \in Outs :
        /\ Len(out.conflicts) = 2
        /\ out.conflicts[1].resolution # out.conflicts[2].resolution
        /\ \E s \in Range(local.sessions), t \in Range(remote.sessions) :
              s.id = t.id /\ s # t
        /\ \E a \in Range(local.achievements), b \in Range(remote.achievements) :
              a.id = b.id /\ a # b
        /\ local.activeSession # Null /\ remote.activeSession # Null
        /\ local.activeSession # remote.activeSession

(***************************************************************************)
(* C5: the merged sessions of two snapshots that share N session ids and   *)
(* have M_local and M_remote ids of their own are N + M_local + M_remote,  *)
(* one per id.                                                             *)
(***************************************************************************)
C5_SessionCount ==
    \A out \in Outs :
        LET L == Ids(local.sessions)
            R == Ids(remote.sessions)
        IN /\ Len(out.sessions) = Cardinality(L \cap R) + Cardinality(L \ R)
                                     + Cardinality(R \ L)
           /\ \A id \in L \cup R : Cardinality(WithId(out.sessions, id)) = 1

\* one shared session id and one own id on either side
C5_Witness ==
    \E out \in Outs :
        /\ Cardinality(Ids(local.sessions) \cap Ids(remote.sessions)) = 1
        /\ Cardinality(Ids(local.sessions) \ Ids(remote.sessions)) = 1
        /\ Cardinality(Ids(remote.sessions) \ Ids(local.sessions)) = 1
        /\ Len(out.sessions) = 3

(***************************************************************************)
(* C6: the merged sessions are in ascending order of startTime.            *)
(***************************************************************************)
C6_SessionsSorted ==
    \A out \in Outs :
        \A k \in 1..(Len(out.sessions) - 1) :
            out.sessions[k].startTime <= out.sessions[k + 1].startTime

\* inputs in descending order, each side starting with the later session
C6_Witness ==
    \E out \in Outs :
        /\ Len(local.sessions) = 2
        /\ local.sessions[1].startTime > local.sessions[2].startTime
        /\ Len(remote.sessions) >= 1
        /\ Len(out.sessions) >= 3
        /\ out.sessions[1].startTime < out.sessions[Len(out.sessions)].startTime

(***************************************************************************)
(* C7: the merged achievements are one record per achievement id of the    *)
(* two snapshots; of an id held by both, the record with the smaller       *)
(* unlockedAt, the local record if they are equal.                         *)
(***************************************************************************)
C7_EarlierUnlockKept ==
    \A out \in Outs :
        /\ Ids(out.achievements) = Ids(local.achievements) \cup Ids(remote.achievements)
        /\ \A id \in Ids(out.achievements) :
              Cardinality(WithId(out.achievements, id)) = 1
        /\ \A l \in Range(local.achievements), r \in Range(remote.achievements) :
              l.id = r.id =>
                  IF r.unlockedAt < l.unlockedAt
                  THEN r \in Range(out.achievements)
                  ELSE l \in Range(out.achievements)

\* the earlier remote record replaced the local one, and of two records
\* unlocked at the same time that differ in seen the local one stayed
C7_Witness ==
    \E out \in Outs :
        \E l, m \in Range(local.achievements), r, s \in Range(remote.achievements) :
            /\ l.id = r.id /\ r.unlockedAt < l.unlockedAt
            /\ r \in Range(out.achievements)
            /\ m.id = s.id /\ m.unlockedAt = s.unlockedAt /\ m # s
            /\ m \in Range(out.achievements) /\ s \notin Range(out.achievements)

(***************************************************************************)
(* C8: the merged activeSession is null if both are null, the one that is  *)
(* not null if one is null, else the one with the greater lastUpdated, the *)
(* local one if they are equal.                                            *)
(***************************************************************************)
C8_ActiveSessionMostRecent ==
    \A out \in Outs :
        LET l == local.activeSession
            r == remote.activeSession
        IN /\ (l = Null /\ r = Null) => out.activeSession = Null
           /\ (l = Null /\ r # Null) => out.activeSession = r
           /\ (l # Null /\ r = Null) => out.activeSession = l
           /\ (l # Null /\ r # Null) =>
                 /\ r.lastUpdated > l.lastUpdated => out.activeSession = r
                 /\ r.lastUpdated <= l.lastUpdated => out.activeSession = l

\* two active sessions of different goals updated at the same time
C8_Witness ==
    \E out \in Outs :
        /\ local.activeSession # Null /\ remote.activeSession # Null
        /\ local.activeSession.lastUpdated = remote.activeSession.lastUpdated
        /\ local.activeSession # remote.activeSession
        /\ out.activeSession = local.activeSession

(***************************************************************************)
(* C9: the merge of a snapshot with an identical copy of it has the goals, *)
(* sessions and achievements of the snapshot, as sets, and its             *)
(* activeSession; every conflict it records is a tie between two identical *)
(* versions.                                                               *)
(***************************************************************************)
C9_SelfMerge ==
    local = remote =>
        \A out \in Outs :
            /\ Range(out.goals) = Range(local.goals)
            /\ Range(out.sessions) = Range(local.sessions)
            /\ Range(out.achievements) = Range(local.achievements)
            /\ out.activeSession = local.activeSession
            /\ \A c \in Range(out.conflicts) : c.local = c.remote

\* a snapshot of two goals with time spent merged with its copy
C9_Witness ==
    /\ local = remote
    /\ \E out \in Outs :
          /\ Len(out.goals) = 2
          /\ \E g \in Range(out.goals) : g.totalTimeSpent > 0
          /\ Len(out.conflicts) = 2
          /\ out.sessions # <<>> /\ out.achievements # <<>>
          /\ out.activeSession # Null

HasSyncDataShape(x) ==
    /\ x.t = "object"
    /\ {"version", "instanceId", "exportedAt", "goals", "sessions",
        "achievements"} \subseteq DOMAIN x.v
    /\ x.v.version.t = "number"
    /\ x.v.instanceId.t = "string"
    /\ x.v.exportedAt.t = "number"
    /\ x.v.goals.t = "array"
    /\ x.v.sessions.t = "array"
    /\ x.v.achievements.t = "array"

C16_ValidateExact ==
    verdict # NotRun =>
        verdict = IF HasSyncDataShape(data) THEN "true" ELSE "false"

\* accepted with a null element in every array and an activeSession that is
\* a string
C16_Witness ==
    /\ verdict = "true"
    /\ data.v.goals = JsArray(<<JsNull>>)
    /\ data.v.sessions = JsArray(<<JsNull>>)
    /\ data.v.achievements = JsArray(<<JsNull>>)
    /\ data.v.activeSession = JsString("x")

(***************************************************************************)
(* Vocabulary of the properties of the app.                                *)
(***************************************************************************)
\* importBackup or handleP2PSync was the last operation
Synced == last.op \in {"import", "sync"}

\* ... and it ran to its end: the four saves, the reload, the evaluation
SyncCompleted == Synced /\ last.status = "done"

\* the incoming value as the snapshot it is, when it is one
Accepted == validateSyncData(remote) = "true"

\* at most one goal is running, and the running goals are the ones with a
\* start time
AtMostOneActive(goals) ==
    /\ Cardinality({i \in 1..Len(goals) : goals[i].isActive}) <= 1
    /\ \A i \in 1..Len(goals) :
          goals[i].isActive <=> goals[i].startTime # NoStartTime

\* the active session, when there is one, is the session of a running goal
ActiveSessionOfRunningGoal(activeSession, goals) ==
    activeSession # Null =>
        \E i \in 1..Len(goals) :
            /\ goals[i].id = activeSession.goalId
            /\ goals[i].isActive
            /\ goals[i].startTime = activeSession.startTime

(***************************************************************************)
(* C12: when the local and the remote snapshot each have at most one       *)
(* running goal, the goals persisted by a completed import or peer sync    *)
(* have at most one running goal.                                          *)
(***************************************************************************)
C12_AtMostOneActiveGoal ==
    (/\ SyncCompleted
     /\ AtMostOneActive(last.local.goals)
     /\ AtMostOneActive(AsSyncData(remote).goals))
        => AtMostOneActive(storage.goals)

(***************************************************************************)
(* C13: when on both sides the active session, if any, is the session of   *)
(* a running goal with the same start time, then after a completed import  *)
(* or peer sync the persisted active session, if any, is the session of a  *)
(* persisted running goal with the same start time.                        *)
(***************************************************************************)
C13_ActiveSessionHasRunningGoal ==
    (/\ SyncCompleted
     /\ ActiveSessionOfRunningGoal(last.local.activeSession, last.local.goals)
     /\ ActiveSessionOfRunningGoal(AsSyncData(remote).activeSession,
                                   AsSyncData(remote).goals))
        => ActiveSessionOfRunningGoal(storage.activeSession, storage.goals)

(***************************************************************************)
(* C14: after a completed import or peer sync the persisted achievements   *)
(* hold every record of the merge result, with its unlockedAt: the records *)
(* only remote had and, for an id both had, the earlier unlockedAt.  The   *)
(* evaluation that follows the saves neither drops nor replaces them.      *)
(***************************************************************************)
C14_MergedAchievementsPersisted ==
    SyncCompleted =>
        \A i \in 1..Len(last.merged.achievements) :
            \E j \in 1..Len(storage.achievements) :
                /\ storage.achievements[j].id = last.merged.achievements[i].id
                /\ storage.achievements[j].unlockedAt
                     = last.merged.achievements[i].unlockedAt

(***************************************************************************)
(* C15: the goals, sessions, achievements and activeSession entries are    *)
(* overwritten as one: when a write of the merge result fails, the four    *)
(* entries are all as before the handler or all from the merge result.     *)
(***************************************************************************)
\* the four entries
FourStores(st) ==
    [goals |-> st.goals, sessions |-> st.sessions,
     achievements |-> st.achievements, activeSession |-> st.activeSession]

C15_NoTornState ==
    (Synced /\ last.status = "failed") =>
        \/ FourStores(storage) = FourStores(last.local)
        \/ FourStores(storage) = FourStores(last.merged)

(***************************************************************************)
(* C17: importBackup and handleP2PSync reject, before any merge, an        *)
(* incoming snapshot whose version is greater than the version this app    *)
(* writes; a snapshot of that version or a lower one is accepted.          *)
(***************************************************************************)
\* the version of the snapshots this app creates
SupportedVersion == createSyncData(syncManager, <<>>, <<>>, <<>>, Null).version

C17_NewerVersionRejected ==
    (Synced /\ Accepted /\ last.confirmed) =>
        (AsSyncData(remote).version > SupportedVersion
            <=> last.status = "rejected")

(***************************************************************************)
(* C18: when validateSyncData rejects the incoming value, or the user      *)
(* declines the confirmation of the import, no merge is run and neither    *)
(* the stores nor the goal list of the app change.                         *)
(***************************************************************************)
C18_RejectedChangesNothing ==
    [][(/\ last'.op \in {"import", "sync"}
        /\ now' # now
        /\ ~Accepted \/ ~last'.confirmed)
          => /\ last'.merged = Null
             /\ storage' = storage
             /\ app' = app]_vars

\* a value that has the form of an object is rejected on a device that has
\* goals
C18_Witness ==
    /\ Synced
    /\ ~Accepted
    /\ remote.t = "object"
    /\ last.status = "rejected"
    /\ storage.goals # <<>>
    /\ storage.activeSession # Null

(***************************************************************************)
(* C19: every value validateSyncData accepts is merged without an          *)
(* exception, also with a null element in an array or without an           *)
(* activeSession: an accepted (and, for the import, confirmed) value never *)
(* ends in the catch block of the handler.                                 *)
(***************************************************************************)
C19_AcceptedIsMerged ==
    (Synced /\ Accepted /\ last.confirmed) =>
        /\ last.status # "threw"
        /\ last.merged # Null

(***************************************************************************)
(* C20: the persisted achievements only grow: no step removes the record   *)
(* of an id from the store, whatever happens to the goals.                 *)
(***************************************************************************)
C20_AchievementsMonotonic ==
    [][Ids(storage.achievements) \subseteq Ids(storage'.achievements)]_vars

(***************************************************************************)
(* Vocabulary of the properties of evaluateAchievements.                   *)
(***************************************************************************)
\* a call of evaluateAchievements has just returned
Evaluated == last # Null /\ last.op = "evaluate"

\* the goal has spent at least p percent of its planned hours
\* (3,600,000 ms an hour, so one percent of an hour is 36,000 ms)
AtLeastPercent(goal, p) ==
    goal.totalTimeSpent >= p * goal.totalHours * 36000

\* the records of the goal, as the set of their thresholds
UnlockedPercents(records, goalId) ==
    {p \in {25, 50, 75, 100} :
        \E i \in DOMAIN records :
            /\ records[i].goalId = goalId
            /\ records[i].id = encodeGoalProgressId(goalId, p)}

(***************************************************************************)
(* C21: after evaluateAchievements every goal with planned hours has a     *)
(* record for each of the thresholds 25, 50, 75 and 100 it has reached, no *)
(* record is created for a threshold that is not reached, and a goal with  *)
(* totalHours = 0 has no record.                                           *)
(***************************************************************************)
C21_UnlockedIffReached ==
    Evaluated =>
        \A i \in DOMAIN app.goals :
            LET goal == app.goals[i]
                had == UnlockedPercents(last.before, goal.id)
                has == UnlockedPercents(app.achievements, goal.id)
            IN IF goal.totalHours > 0
               THEN /\ \A p \in {25, 50, 75, 100} :
                          AtLeastPercent(goal, p) => p \in has
                    /\ \A p \in has \ had : AtLeastPercent(goal, p)
               ELSE \A j \in DOMAIN app.achievements :
                        app.achievements[j].goalId # goal.id

\* a 10-hour goal with 5 hours spent has the 25% and 50% records only, next
\* to a goal without planned time or without time spent
C21_Witness ==
    /\ Evaluated
    /\ \E i \in DOMAIN app.goals :
          /\ app.goals[i].totalHours = 10
          /\ app.goals[i].totalTimeSpent = 5 * MsPerHour
          /\ UnlockedPercents(last.before, app.goals[i].id) = {}
          /\ UnlockedPercents(app.achievements, app.goals[i].id) = {25, 50}

(***************************************************************************)
(* C22: evaluateAchievements creates each new record with unlockedAt = the *)
(* time of the call and seen = false, and a record that existed before     *)
(* the call keeps its id, goalId and unlockedAt: a threshold that is       *)
(* already unlocked is not unlocked again.                                 *)
(***************************************************************************)
C22_NewStampedOldKept ==
    Evaluated =>
        /\ \A i \in DOMAIN last.saved :
              last.saved[i].id \notin Ids(last.before) =>
                  /\ last.saved[i].unlockedAt = last.time
                  /\ ~last.saved[i].seen
        /\ \A i \in DOMAIN last.before : \A j \in DOMAIN app.achievements :
              app.achievements[j].id = last.before[i].id =>
                  /\ app.achievements[j].goalId = last.before[i].goalId
                  /\ app.achievements[j].unlockedAt = last.before[i].unlockedAt

\* a call that creates a record next to an older one whose threshold is
\* still reached
C22_Witness ==
    /\ Evaluated
    /\ \E i \in DOMAIN last.saved : last.saved[i].id \notin Ids(last.before)
    /\ \E i \in DOMAIN last.before :
          /\ last.before[i].unlockedAt < last.time
          /\ last.before[i].id \in Ids(app.achievements)

\* the ids of the records that have not been announced
UnseenIds(records) ==
    {records[i].id : i \in {j \in DOMAIN records : ~records[j].seen}}

(***************************************************************************)
(* C23: an unlocked achievement is announced once.  A call with notify =   *)
(* true announces exactly the records with seen = false, each once, and    *)
(* stores every record with seen = true, so no call announces an id that   *)
(* an earlier call announced; a call with notify = false announces nothing *)
(* and leaves the seen flag of every record as it was.                     *)
(***************************************************************************)
C23_AnnouncedOnce ==
    Evaluated =>
        IF last.notify
        THEN /\ Ids(last.announced) = UnseenIds(last.saved)
             /\ Cardinality(Ids(last.announced)) = Len(last.announced)
             /\ Ids(last.announced) \cap last.earlier = {}
             /\ UnseenIds(app.achievements) = {}
             /\ storage.achievements = app.achievements
        ELSE /\ last.announced = <<>>
             /\ app.achievements = last.saved
             /\ storage.achievements = last.saved
             /\ SeenIds(last.saved) = SeenIds(last.before)

\* a call announces the records unlocked since an earlier announcement
C23_Witness ==
    /\ Evaluated
    /\ last.notify
    /\ last.earlier # {}
    /\ last.announced # <<>>
    /\ SeenIds(last.before) # {}

(***************************************************************************)
(* C25: the seen flag only goes from false to true: the merged record of   *)
(* an id whose local record has seen = true has seen = true.               *)
(***************************************************************************)
C25_SeenNeverReset ==
    \A out \in Outs :
        \A l \in Range(local.achievements) :
            l.seen => \A m \in Range(out.achievements) : m.id = l.id => m.seen

(***************************************************************************)
(* Vocabulary of the properties of a device.                               *)
(***************************************************************************)
\* no two elements of xs have the same id
UniqueIds(xs) == \A i, j \in DOMAIN xs : xs[i].id = xs[j].id => i = j

\* the last step was the arrival of the peer's snapshot
PeerSynced == last.op = "sync" /\ last.merged # Null

(***************************************************************************)
(* C24: from an empty achievement store, after any sequence of             *)
(* evaluateAchievements calls (made by the handlers) and merges, no two    *)
(* records of the store, of this.achievements or of a merge output have    *)
(* the same id.                                                            *)
(***************************************************************************)
C24_OneRecordPerId ==
    /\ UniqueIds(storage.achievements)
    /\ UniqueIds(app.achievements)
    /\ \A out \in Outs : UniqueIds(out.achievements)

\* a merge of two snapshots that both hold the record of an id, on a
\* device that has unlocked a further record itself
C24_Witness ==
    /\ PeerSynced
    /\ Ids(last.local.achievements) \cap Ids(AsSyncData(remote).achievements) # {}
    /\ Len(last.local.achievements) >= 2
    /\ Len(storage.achievements) >= 2

\* no snapshot of a peer has been merged: every step so far was a local one
OnlyLocal == results = <<>>

\* the goals that are running
ActiveGoals(goals) == {i \in DOMAIN goals : goals[i].isActive}

(***************************************************************************)
(* C26: after any sequence of local operations from an empty store at most *)
(* one goal has isActive = true and a goal has a startTime exactly when it *)
(* is active, in the store and in this.goals; a start of a goal while      *)
(* another runs leaves the other stopped.                                  *)
(***************************************************************************)
C26_SingleRunningGoal ==
    /\ [](OnlyLocal =>
            \A goals \in {storage.goals, app.goals} :
                /\ Cardinality(ActiveGoals(goals)) <= 1
                /\ \A i \in DOMAIN goals :
                      goals[i].isActive <=> goals[i].startTime # NoStartTime)
    /\ [][(OnlyLocal' /\ last'.op = "start") =>
            \A i \in ActiveGoals(app.goals), j \in ActiveGoals(app'.goals) :
                app'.goals[j].id # app.goals[i].id =>
                    /\ app'.goals[j].startTime = now
                    /\ \E k \in DOMAIN app'.goals :
                          /\ app'.goals[k].id = app.goals[i].id
                          /\ ~app'.goals[k].isActive
                          /\ app'.goals[k].totalTimeSpent =
                                app.goals[i].totalTimeSpent
                                    + (now - app.goals[i].startTime)
                    /\ storage'.goals = app'.goals]_vars

\* a goal was started while another was running: the other is stopped, its
\* time is counted and its session is stored
C26_Witness ==
    /\ OnlyLocal
    /\ last.op = "start"
    /\ Len(app.goals) = 2
    /\ app.goals[1].isActive /\ app.goals[1].startTime = now - 1
    /\ ~app.goals[2].isActive /\ app.goals[2].totalTimeSpent > 0
    /\ \E k \in DOMAIN storage.sessions :
          /\ storage.sessions[k].goalId = app.goals[2].id
          /\ storage.sessions[k].endTime = now - 1

\* the goals of the store with the given id
StoredGoals(goalId) == {i \in DOMAIN storage.goals : storage.goals[i].id = goalId}

(***************************************************************************)
(* C27: after any sequence of local operations from an empty store, the    *)
(* hiding and the reload of the page among them, the persisted active      *)
(* session is non-null exactly when a goal is active, and it holds the id  *)
(* and the startTime of that goal; a reload that finds a saved session     *)
(* whose goal is missing or archived clears the session and restores no    *)
(* goal.                                                                   *)
(***************************************************************************)
C27_ActiveSessionTracksRunningGoal ==
    /\ [](OnlyLocal =>
            /\ storage.activeSession # Null <=> ActiveGoals(storage.goals) # {}
            /\ \A i \in ActiveGoals(storage.goals) :
                  /\ storage.activeSession.goalId = storage.goals[i].id
                  /\ storage.activeSession.startTime = storage.goals[i].startTime)
    /\ [][(/\ last'.op = "reload"
           /\ ActiveGoals(app.goals) = {}
           /\ storage.activeSession # Null
           /\ \A i \in StoredGoals(storage.activeSession.goalId) :
                 storage.goals[i].isArchived) =>
              /\ storage'.activeSession = Null
              /\ storage'.goals = storage.goals
              /\ app'.goals = storage.goals]_vars

\* the page is reloaded while a goal runs, after the goal that ran before
\* was stopped by the start of this one
C27_Witness ==
    /\ OnlyLocal
    /\ last.op = "reload"
    /\ last.status = "restored"
    /\ storage.activeSession # Null
    /\ \E i \in ActiveGoals(storage.goals) :
          /\ storage.activeSession.goalId = storage.goals[i].id
          /\ storage.goals[i].lastModified = now - 1
    /\ storage.sessions # <<>>

\* the goals of before and after a step that have the same id
SameGoal(before, after) ==
    {<<i, j>> \in (DOMAIN before) \X (DOMAIN after) : before[i].id = after[j].id}

\* every goal the step changed has the time of the step as its
\* lastModified, and no lastModified went back
StampedIfChanged(before, after) ==
    \A p \in SameGoal(before, after) :
        /\ after[p[2]] # before[p[1]] => after[p[2]].lastModified = now
        /\ after[p[2]].lastModified >= before[p[1]].lastModified

(***************************************************************************)
(* C28: every local operation that changes a field of a goal (start, stop, *)
(* add time, archive, restore, the restore of the active session on load)  *)
(* sets the lastModified of that goal to the current time, in the store    *)
(* and in this.goals, and the lastModified of no goal decreases.           *)
(***************************************************************************)
C28_ChangeStampsLastModified ==
    [][last'.op # "sync" =>
          /\ StampedIfChanged(storage.goals, storage'.goals)
          /\ StampedIfChanged(app.goals, app'.goals)]_vars

\* a goal received from the peer was stopped on this device: its time grew
\* and its lastModified is the time of the stop
C28_Witness ==
    /\ last.op = "stop"
    /\ \E i \in DOMAIN storage.goals :
          /\ storage.goals[i].instanceId = RemoteInstanceId
          /\ storage.goals[i].lastModified = now - 1
          /\ ~storage.goals[i].isActive
          /\ storage.goals[i].totalTimeSpent > MsPerHour \div 4

\* every goal the step changed names this device in instanceId
OwnedIfChanged(before, after) ==
    \A p \in SameGoal(before, after) :
        after[p[2]] # before[p[1]] => after[p[2]].instanceId = LocalInstanceId

(***************************************************************************)
(* C29: the instanceId of a goal is the id of the instance that last wrote *)
(* it: after this device starts, stops, adds time to, archives or restores *)
(* a goal, also one it received through a merge, the goal has the          *)
(* instanceId of this device.                                              *)
(***************************************************************************)
C29_InstanceIdIsLastWriter ==
    [][last'.op \in {"start", "stop", "addTime", "archive", "restore"} =>
          /\ OwnedIfChanged(storage.goals, storage'.goals)
          /\ OwnedIfChanged(app.goals, app'.goals)]_vars

\* every session of before is a session of after, and the only one with
\* its id
SessionsKept(before, after) ==
    \A i \in DOMAIN before :
        \A j \in DOMAIN after : after[j].id = before[i].id => after[j] = before[i]

(***************************************************************************)
(* C30: a session in the local session store never changes: no step of    *)
(* the device (start, stop, add time, archive, restore, delete, reload, a  *)
(* merge) alters or drops a stored session, and the merge output holds,    *)
(* for every session id of the local snapshot, the local record, also      *)
(* when the remote snapshot has another record under that id.              *)
(***************************************************************************)
C30_SessionsImmutable ==
    [][/\ SessionsKept(storage.sessions, storage'.sessions)
       /\ Ids(storage.sessions) \subseteq Ids(storage'.sessions)
       /\ PeerSynced' =>
             /\ SessionsKept(last'.local.sessions, last'.merged.sessions)
             /\ Ids(last'.local.sessions) \subseteq Ids(last'.merged.sessions)
             /\ last'.local.sessions = storage.sessions]_vars

\* the peer's snapshot had another record under the id of a local session,
\* and the store holds the local one
C30_Witness ==
    /\ PeerSynced
    /\ \E l \in Range(last.local.sessions), r \in Range(AsSyncData(remote).sessions) :
          /\ l.id = r.id
          /\ l # r
          /\ l \in Range(storage.sessions)
          /\ r \notin Range(storage.sessions)
    /\ Len(storage.sessions) >= 3

(***************************************************************************)
(* Vocabulary of the properties of the streak.                             *)
(***************************************************************************)
\* the days up to today on which a session has logged time before now
DaysWithLoggedTime ==
    {day \in 0..(now \div MS_PER_DAY) :
        \E i \in DOMAIN local :
            /\ local[i].startTime < (day + 1) * MS_PER_DAY
            /\ local[i].endTime > day * MS_PER_DAY
            /\ local[i].startTime < now
            /\ day * MS_PER_DAY < now}

\* the lengths of the runs of consecutive days in the set
RunLengths(days) ==
    {n \in 0..Cardinality(days) :
        n = 0 \/ \E first \in days : \A k \in 0..(n - 1) : first + k \in days}

LongestRun(days) == CHOOSE n \in RunLengths(days) : \A m \in RunLengths(days) : m <= n

(***************************************************************************)
(* C31: the streak of a set of sessions is the length of the longest run   *)
(* of consecutive calendar days that each have logged time; it is 0 for no *)
(* sessions.                                                               *)
(***************************************************************************)
C31_StreakIsLongestRun ==
    results # <<>> => results[1] = LongestRun(DaysWithLoggedTime)

(***************************************************************************)
(* Vocabulary of the properties of the add-time form.                      *)
(***************************************************************************)
\* a time lies on the day
OnDay(timestamp, day) ==
    day * MS_PER_DAY <= timestamp /\ timestamp < (day + 1) * MS_PER_DAY

RECURSIVE SumOver(_, _)
\* the sum of the durations of the sessions at the indices
SumOver(sessions, indices) ==
    IF indices = {} THEN 0
    ELSE LET i == CHOOSE i \in indices : TRUE
         IN sessions[i].duration + SumOver(sessions, indices \ {i})

\* the durations of the stored sessions, of all goals, that start or end on
\* the day
LoggedOnDay(sessions, day) ==
    SumOver(sessions, {i \in DOMAIN sessions :
                          \/ OnDay(sessions[i].startTime, day)
                          \/ OnDay(sessions[i].endTime, day)})

\* the day's sessions and the new hours exceed 24 hours
OverDailyLimit(sessions, hours, targetDate) ==
    LoggedOnDay(sessions, targetDate \div MS_PER_DAY) + hours * MsPerHour
        > 24 * MsPerHour

\* totalTimeSpent and lastModified of every goal, by id
TimeAndStamp(goals) ==
    {[id |-> goals[i].id, totalTimeSpent |-> goals[i].totalTimeSpent,
      lastModified |-> goals[i].lastModified] : i \in DOMAIN goals}

(***************************************************************************)
(* C32: a manual addition of positive hours is rejected exactly when the   *)
(* durations of the stored sessions of all goals that start or end on the  *)
(* target day plus the new hours exceed 24 hours; a rejection appends no   *)
(* session and changes no goal's totalTimeSpent or lastModified, an        *)
(* acceptance appends one session of the goal and adds its duration to the *)
(* goal's totalTimeSpent.                                                  *)
(***************************************************************************)
C32_DailyLimit ==
    [][(last'.op = "addTime" /\ last'.hours > 0) =>
        LET over == OverDailyLimit(storage.sessions, last'.hours, last'.targetDate)
            n == Len(storage.sessions)
        IN /\ (last'.status = "rejected") <=> over
           /\ over =>
                 /\ storage'.sessions = storage.sessions
                 /\ TimeAndStamp(storage'.goals) = TimeAndStamp(storage.goals)
                 /\ TimeAndStamp(app'.goals) = TimeAndStamp(app.goals)
           /\ ~over =>
                 /\ last'.status = "added"
                 /\ Len(storage'.sessions) = n + 1
                 /\ SubSeq(storage'.sessions, 1, n) = storage.sessions
                 /\ storage'.sessions[n + 1].goalId = last'.goalId
                 /\ storage'.sessions[n + 1].duration = last'.hours * MsPerHour
                 /\ \A i \in DOMAIN storage.goals :
                       storage'.goals[i].totalTimeSpent =
                           storage.goals[i].totalTimeSpent +
                           (IF storage.goals[i].id = last'.goalId
                            THEN storage'.sessions[n + 1].duration ELSE 0)]_vars

\* an addition to one goal was rejected for the sessions of the other goal,
\* which together with it exceed the 24 hours
C32_Witness ==
    /\ last.op = "addTime"
    /\ last.status = "rejected"
    /\ last.hours <= 10
    /\ storage.sessions # <<>>
    /\ \A i \in DOMAIN storage.sessions : storage.sessions[i].goalId # last.goalId

(***************************************************************************)
(* Vocabulary of the properties of the store readers.                      *)
(***************************************************************************)
\* what the reader returned
Read == results[1]

\* the stored item is no text of a JSON value
MissingOrInvalid == ~data.item.present \/ ~data.item.valid

\* the value is a finite number, or a text that reads as one
FiniteTime(x) == x.t = "number" \/ (x.t = "string" /\ x.v = "5")

\* an object with a goalId and the finite times named
HasGoalIdAndTimes(x, times) ==
    /\ x.t = "object"
    /\ "goalId" \in DOMAIN x.v
    /\ x.v.goalId.t = "string"
    /\ x.v.goalId.v # ""
    /\ \A name \in times : name \in DOMAIN x.v /\ FiniteTime(x.v[name])

\* the elements of the stored array that are sessions
WellFormedSessions ==
    {i \in DOMAIN data.item.value.v :
        HasGoalIdAndTimes(data.item.value.v[i], {"startTime", "endTime", "duration"})}

(***************************************************************************)
(* C33: no reader of the store throws; loadGoals, loadSessions and         *)
(* loadAchievements return an empty list and getActiveSession returns null *)
(* for an item that is missing, no valid JSON or not of the expected shape *)
(* (no array; no object with a goalId and finite times); loadSessions      *)
(* drops the malformed sessions, loadGoals gives a goal without totalHours *)
(* the default of 60.                                                      *)
(***************************************************************************)
C33_ReadersNeverThrow ==
    results # <<>> =>
        /\ ~Read.threw
        /\ data.key # "activeSession" =>
              /\ (MissingOrInvalid \/ ~IsArray(data.item.value)) => Read.value = <<>>
        /\ data.key = "activeSession" =>
              (Read.value # JsNull <=>
                  /\ ~MissingOrInvalid
                  /\ HasGoalIdAndTimes(data.item.value, {"startTime", "lastUpdated"}))
        /\ (data.key = "sessions" /\ ~MissingOrInvalid /\ IsArray(data.item.value)) =>
              Len(Read.value) = Cardinality(WellFormedSessions)
        /\ (data.key = "goals" /\ ~MissingOrInvalid /\ IsArray(data.item.value)) =>
              /\ Len(Read.value) = Len(data.item.value.v)
              /\ \A i \in DOMAIN Read.value :
                    OptProp(data.item.value.v[i], "totalHours") = JsUndefined
                        => Read.value[i].totalHours = 60

(***************************************************************************)
(* C34: for every goal id, also one that holds ':' or ':progress:', and    *)
(* every percent, the id built for them decodes to that goal id and that   *)
(* percent, and resolveAchievementDefinition gives a definition with that  *)
(* goalId and that threshold, whether or not a goal of the id exists.      *)
(***************************************************************************)
C34_IdRoundTrip ==
    results # <<>> =>
        /\ results[1].decoded = [goalId |-> data.goalId, percent |-> data.percent]
        /\ results[1].definition # Null
        /\ results[1].definition.goalId = data.goalId
        /\ results[1].definition.threshold = data.percent

\* the id of a goal that is ':progress:' was resolved with no such goal on
\* the list
C34_Witness ==
    /\ results # <<>>
    /\ data.goalId = <<":", "P", ":">>
    /\ \A i \in DOMAIN data.goals : data.goals[i].id # data.goalId
    /\ results[1].definition # Null

(***************************************************************************)
(* Vocabulary of the properties of startGoal.                              *)
(***************************************************************************)
\* the goal of the id is running
IsRunning(goalId) ==
    \E i \in DOMAIN app.goals : app.goals[i].id = goalId /\ app.goals[i].isActive

\* the goal of the id is archived
IsArchived(goalId) ==
    \E i \in DOMAIN app.goals : app.goals[i].id = goalId /\ app.goals[i].isArchived

\* no goal has the id
IsUnknown(goalId) == \A i \in DOMAIN app.goals : app.goals[i].id # goalId

C36_TotalIsSumOfSessions ==
    /\ \A g \in DOMAIN storage.goals :
          storage.goals[g].totalTimeSpent =
              SumOver(storage.sessions,
                      {i \in DOMAIN storage.sessions :
                          storage.sessions[i].goalId = storage.goals[g].id})
    /\ \A i \in DOMAIN storage.sessions :
          storage.sessions[i].duration =
              storage.sessions[i].endTime - storage.sessions[i].startTime

\* a goal has the time of a stopped timer and of a manual entry
C36_Witness ==
    \E g \in DOMAIN storage.goals :
        /\ \E i \in DOMAIN storage.sessions :
              /\ storage.sessions[i].goalId = storage.goals[g].id
              /\ storage.sessions[i].duration = hoursToMilliseconds(1) \div 4
        /\ \E i \in DOMAIN storage.sessions :
              /\ storage.sessions[i].goalId = storage.goals[g].id
              /\ storage.sessions[i].duration < 10
        /\ storage.goals[g].totalTimeSpent > hoursToMilliseconds(1) \div 4

(***************************************************************************)
(* Vocabulary of the properties of the goal totals under a merge.          *)
(***************************************************************************)
\* every goal's totalTimeSpent is the sum of the durations of the sessions
\* of the snapshot with its goalId
TotalsMatchSessions(snapshot) ==
    \A g \in DOMAIN snapshot.goals :
        snapshot.goals[g].totalTimeSpent =
            SumOver(snapshot.sessions,
                    {i \in DOMAIN snapshot.sessions :
                        snapshot.sessions[i].goalId = snapshot.goals[g].id})

(***************************************************************************)
(* C37: when in the local and in the remote snapshot every goal's          *)
(* totalTimeSpent is the sum of the durations of the snapshot's sessions   *)
(* of the goal, then so it is in merge(local, remote): the time tracked on *)
(* both devices for one goal is in the merged goal's total.                *)
(***************************************************************************)
C37_MergeKeepsTotals ==
    (/\ last.merged # Null
     /\ TotalsMatchSessions(last.local)
     /\ TotalsMatchSessions(AsSyncData(remote)))
        => TotalsMatchSessions(last.merged)

(***************************************************************************)
(* Vocabulary of the properties of two peers.                              *)
(***************************************************************************)
\* no two different versions of one goal, one on each side, have the same
\* lastModified and the same instanceId
VersionsTold ==
    \A i \in DOMAIN local.goals, j \in DOMAIN remote.goals :
        (/\ local.goals[i].id = remote.goals[j].id
         /\ local.goals[i] # remote.goals[j])
            => \/ local.goals[i].lastModified # remote.goals[j].lastModified
               \/ local.goals[i].instanceId # remote.goals[j].instanceId

(***************************************************************************)
(* C38: two peers that merge each other's snapshot have the same goals:    *)
(* merge(A, B).goals and merge(B, A).goals are the same set of goal        *)
(* versions, for snapshots with unique goal ids per side in which two      *)
(* different versions of a goal never agree on both lastModified and       *)
(* instanceId.                                                             *)
(***************************************************************************)
C38_PeersReachSameGoals ==
    (results # <<>> /\ VersionsTold) =>
        Range(results[1].out.goals) = Range(results[2].out.goals)

\* both sides had a goal in different versions of the same lastModified
\* and the peers merged
C38_Witness ==
    /\ results # <<>>
    /\ VersionsTold
    /\ \E i \in DOMAIN local.goals, j \in DOMAIN remote.goals :
          /\ local.goals[i].id = remote.goals[j].id
          /\ local.goals[i].lastModified = remote.goals[j].lastModified
          /\ local.goals[i].totalTimeSpent # remote.goals[j].totalTimeSpent
    /\ Len(results[1].out.goals) = 2

(***************************************************************************)
(* Vocabulary of the properties of the exchange.                           *)
(***************************************************************************)
\* no message is on its way
ChannelQuiet == \A p \in Peers : data[p] = <<>>

(***************************************************************************)
(* C39: a peer sync is an exchange: when a peer has triggered Sync Now and *)
(* the other peer has received its snapshot, the other peer sends its own  *)
(* data back, so that once no message is on its way the peer that started  *)
(* the sync has received a message and merged, and both hold the same      *)
(* goals.                                                                  *)
(***************************************************************************)
C39_SyncIsExchange ==
    \A p \in Peers :
        (last.requested[p] > 0 /\ ChannelQuiet) =>
            /\ last.received[p] > 0
            /\ Range(local.goals) = Range(remote.goals)

(***************************************************************************)
(* C40: once createOffer or createAnswer has started a new attempt, an     *)
(* event of an earlier attempt that arrives late, such as the close event  *)
(* of the data channel that cleanup() closed, does not change the          *)
(* connection state of the new attempt.                                    *)
(***************************************************************************)
C40_LateEventsIgnored ==
    [][(/\ last'.op = "close"
        /\ app.pc # 0
        /\ last'.channel < app.pc) =>
           app'.connectionState = app.connectionState]_vars
====
